---- MODULE Spec2Model ----
(***************************************************************************)
(* eco-spain-mapper: the emissions aggregation and geo-assignment          *)
(* pipeline.  Seven specifications share this module:                      *)
(*   SpecRender  MapVisualization's render pass (filter, aggregate,        *)
(*               ranges, marker colour and radius)                         *)
(*   SpecParse   the two runtime CSV parsers (Index and DataUpload)        *)
(*   SpecBatch   the offline archive driver (closestRegion, parseData)     *)
(*   Spec        Index's dataset loads (mount fetch, load default, upload) *)
(*   SpecLive    Spec with the mount fetch settling (weak fairness)        *)
(*   SpecFilter  FilterPanel's four filter fields over a rendered map      *)
(*   SpecSanitize  sanitizeNumber and sanitizeString of utils/security.ts  *)
(* Numbers are exact: a JavaScript number is an integer, NaN or +-Infinity;*)
(* coordinates are in units of 0.0001 degree; quotients are fractions.   *)
(***************************************************************************)
EXTENDS Integers, Sequences, FiniteSets, TLC

VARIABLES
  \* Index state handed to MapVisualization as props
  data, filters, selectedMetrics,
  \* MapVisualization's memoised values and rendered markers
  rendered, aggregated, ranges, markers,
  \* the batch driver: the downloaded archive, main's position, parseData's
  \* loop index and Map, and the lines written to OUTPUT_CSV
  archive, batchPc, entryIdx, aggregates, output,
  \* a CSV text and what the two runtime parsers make of it
  csv, indexParsed, indexOut, uploadParsed, uploadOut,
  \* the rest of the state of Index, the state of the DataUpload instances
  \* and the dataset loads started so far, in the order they were started
  mounted, isLoading, error, statusMsg, isDataModalOpen, uploadIsLoading,
  toast, loads,
  \* a value and what sanitizeNumber and sanitizeString return for it
  sanitized, numbered, numberOut, stringed, stringOut

renderVars == <<data, filters, selectedMetrics, rendered, aggregated, ranges, markers>>
batchVars == <<archive, batchPc, entryIdx, aggregates, output>>

parseVars == <<csv, indexParsed, indexOut, uploadParsed, uploadOut>>

appVars == <<mounted, isLoading, error, statusMsg, isDataModalOpen,
             uploadIsLoading, toast, loads>>

cleanVars == <<sanitized, numbered, numberOut, stringed, stringOut>>

vars == <<renderVars, batchVars, parseVars, appVars, cleanVars>>

(***************************************************************************)
(* JavaScript values                                                       *)
(***************************************************************************)
Num(n) == [k |-> "num", n |-> n, s |-> ""]
NaN == [k |-> "nan", n |-> 0, s |-> ""]
PosInf == [k |-> "inf", n |-> 1, s |-> ""]
NegInf == [k |-> "inf", n |-> -1, s |-> ""]
Undef == [k |-> "undef", n |-> 0, s |-> ""]
Null == [k |-> "null", n |-> 0, s |-> ""]
Str(s) == [k |-> "str", n |-> 0, s |-> s]
\* the numbers 1e12 and -1e12, and a finite number beyond them (1e13 and
\* -1e13): these lie outside the integers the other numbers are written in,
\* and only the sanitisers and the parsers meet them
Limit(sign) == [k |-> "limit", n |-> sign, s |-> ""]
Huge(sign) == [k |-> "huge", n |-> sign, s |-> ""]

\* typeof v === 'number'
IsNumber(v) == v.k \in {"num", "nan", "inf", "limit", "huge"}

\* JavaScript truthiness
Truthy(v) ==
  CASE v.k = "num" -> v.n # 0
    [] v.k \in {"inf", "limit", "huge"} -> TRUE
    [] v.k = "str" -> v.s # ""
    [] v.k = "arr" -> TRUE
    [] OTHER -> FALSE

\* a || b
Or(a, b) == IF Truthy(a) THEN a ELSE b

\* a + b on numbers
Add(a, b) ==
  CASE a.k = "nan" \/ b.k = "nan" -> NaN
    [] a.k = "inf" /\ b.k = "inf" -> IF a.n = b.n THEN a ELSE NaN
    [] a.k = "inf" -> a
    [] b.k = "inf" -> b
    [] a.k = "num" /\ b.k = "num" -> Num(a.n + b.n)

\* a < b on numbers (false when either is NaN)
Less(a, b) ==
  CASE a.k = "nan" \/ b.k = "nan" -> FALSE
    [] a.k = "inf" /\ b.k = "inf" -> a.n < b.n
    [] a.k = "inf" -> a.n < 0
    [] b.k = "inf" -> b.n > 0
    [] a.k \in {"limit", "huge"} /\ b.k = "num" -> a.n < 0
    [] a.k = "num" /\ b.k \in {"limit", "huge"} -> b.n > 0
    [] a.k = "num" /\ b.k = "num" -> a.n < b.n

Range(seq) == {seq[i] : i \in DOMAIN seq}

\* Number(text) for the cell texts of the model; a coordinate cell (written
\* with a decimal point) converts to units of 0.0001 degree
CellNumber(text) ==
  CASE text \in {"", "0", "0.0"} -> Num(0)
    [] text = "3" -> Num(3)
    [] text = "5" -> Num(5)
    [] text = "7" -> Num(7)
    [] text = "10" -> Num(10)
    [] text = "-5" -> Num(-5)
    [] text = "1800" -> Num(1800)
    [] text = "2022" -> Num(2022)
    [] text = "2023" -> Num(2023)
    [] text = "Infinity" -> PosInf
    [] text = "-Infinity" -> NegInf
    [] text = "1e12" -> Limit(1)
    [] text = "-1e12" -> Limit(-1)
    [] text = "1e13" -> Huge(1)
    [] text = "-1e13" -> Huge(-1)
    [] text = "40.4165" -> Num(404165)
    [] text = "-3.7026" -> Num(-37026)
    [] text = "90.0" -> Num(900000)
    [] text = "1.0" -> Num(10000)
    [] OTHER -> NaN

\* the cells Papa puts under __parsed_extra: count cells, the first being first
Arr(count, first) == [k |-> "arr", n |-> count, s |-> first]

\* Number(v)
ToNumber(v) ==
  CASE IsNumber(v) -> v
    [] v.k = "str" -> CellNumber(v.s)
    [] v.k = "arr" -> IF v.n = 1 THEN CellNumber(v.s) ELSE NaN
    [] v.k = "null" -> Num(0)
    [] OTHER -> NaN

(***************************************************************************)
(* The anchor table (regions in the batch driver, REGION_COORDS in         *)
(* MapVisualization), in units of 0.0001 degree                            *)
(***************************************************************************)
regions == <<
  [name |-> "Andalucía",            coords |-> <<377749, -47324>>],
  [name |-> "Aragón",               coords |-> <<415868, -8296>>],
  [name |-> "Asturias",             coords |-> <<433619, -58494>>],
  [name |-> "Baleares",             coords |-> <<396953, 30176>>],
  [name |-> "Canarias",             coords |-> <<282916, -166291>>],
  [name |-> "Cantabria",            coords |-> <<431828, -39878>>],
  [name |-> "Castilla-La Mancha",   coords |-> <<395663, -29908>>],
  [name |-> "Castilla y León",      coords |-> <<416523, -47245>>],
  [name |-> "Cataluña",             coords |-> <<418019, 18734>>],
  [name |-> "Comunidad Valenciana", coords |-> <<394840, -7532>>],
  [name |-> "Extremadura",          coords |-> <<391622, -63432>>],
  [name |-> "Galicia",              coords |-> <<425751, -81339>>],
  [name |-> "Madrid",               coords |-> <<404165, -37026>>],
  [name |-> "Murcia",               coords |-> <<379922, -11307>>],
  [name |-> "Navarra",              coords |-> <<426954, -16761>>],
  [name |-> "País Vasco",           coords |-> <<432630, -29340>>],
  [name |-> "La Rioja",             coords |-> <<422871, -25396>>] >>

Spain == "España"

NoCoords == [k |-> "undef", lat |-> 0, lng |-> 0]
Coords(lat, lng) == [k |-> "pair", lat |-> lat, lng |-> lng]

\* REGION_COORDS[region]: the 17 anchors plus the national anchor
REGION_COORDS(region) ==
  IF region.k # "str" THEN NoCoords
  ELSE IF region.s = Spain THEN Coords(404168, -37038)
  ELSE IF \E i \in DOMAIN regions : regions[i].name = region.s
       THEN LET i == CHOOSE j \in DOMAIN regions : regions[j].name = region.s
            IN Coords(regions[i].coords[1], regions[i].coords[2])
       ELSE NoCoords

(***************************************************************************)
(* CO2Data records: an object v (own keys -> values: the canonical fields  *)
(* and whatever alias or extra columns a parser keeps) and the optional    *)
(* coordinates pair                                                        *)
(***************************************************************************)
\* item[name]
Get(item, name) == IF name \in DOMAIN item.v THEN item.v[name] ELSE Undef

\* obj with obj[key] = value
Put(obj, key, value) == (key :> value) @@ obj

MkRec(region, year, sector, emissions, coordinates, intensity) ==
  LET base == [region |-> region, year |-> year, sector |-> sector,
               emissions |-> emissions]
  IN [v |-> IF intensity.k = "undef" THEN base ELSE Put(base, "intensity", intensity),
      coordinates |-> coordinates]

NoFilters == [region |-> Null, year |-> Null, sectorCategory |-> Null, sector |-> Null]

(***************************************************************************)
(* MapVisualization: the memoised pipeline of one render pass              *)
(***************************************************************************)
filteredData(d, f) ==
  LET Keep(item) ==
        /\ ~(Truthy(f.region) /\ Get(item, "region") # f.region)
        /\ ~(Truthy(f.year) /\ Get(item, "year") # f.year)
        /\ ~(Truthy(f.sectorCategory) /\ Get(item, "sectorCategory") # f.sectorCategory)
        /\ ~(Truthy(f.sector) /\ Get(item, "sector") # f.sector)
  IN SelectSeq(d, Keep)

\* a faulty variant of filteredWithoutSpain: the records of España stay
filteredWithSpain(fd) == fd

filteredWithoutSpain(fd) ==
  LET Keep(item) == Get(item, "region") # Str(Spain)
  IN SelectSeq(fd, Keep)

RECURSIVE SumMetric(_, _)
SumMetric(items, metric) ==
  IF items = <<>> THEN Num(0)
  ELSE LET rest == SumMetric(SubSeq(items, 1, Len(items) - 1), metric)
           v == Get(items[Len(items)], metric)
       IN IF v.k = "num" THEN Add(rest, v) ELSE rest

spainTotal(fd, metrics) ==
  IF metrics = <<>> THEN Num(0)
  ELSE LET IsSpain(item) == Get(item, "region") = Str(Spain)
       IN SumMetric(SelectSeq(fd, IsSpain), metrics[1])

\* the Map key: `${coords[0]},${coords[1]}` when coordinates resolve, else item.region
AggKey(item) ==
  LET coords == IF item.coordinates.k # "undef" THEN item.coordinates
                ELSE REGION_COORDS(Get(item, "region"))
  IN IF coords.k # "undef"
     THEN [c |-> TRUE, lat |-> coords.lat, lng |-> coords.lng, r |-> Undef]
     ELSE [c |-> FALSE, lat |-> 0, lng |-> 0, r |-> Get(item, "region")]

AggCoords(item) ==
  IF item.coordinates.k # "undef" THEN item.coordinates
  ELSE REGION_COORDS(Get(item, "region"))

\* selectedMetrics.forEach on an existing entry
RECURSIVE AddMetrics(_, _, _)
AddMetrics(existing, item, metrics) ==
  IF metrics = <<>> THEN existing
  ELSE LET metric == Head(metrics)
           raw == IF metric \in DOMAIN item THEN item[metric] ELSE Undef
           upd == IF /\ IsNumber(raw)
                     /\ metric \in DOMAIN existing
                     /\ IsNumber(existing[metric])
                  THEN [existing EXCEPT ![metric] = Add(existing[metric], raw)]
                  ELSE existing
       IN AddMetrics(upd, item, Tail(metrics))

\* one callback of filteredWithoutSpain.forEach
AggStep(map, item, metrics) ==
  LET key == AggKey(item)
  IN IF \E i \in DOMAIN map : map[i].key = key
     THEN LET i == CHOOSE j \in DOMAIN map : map[j].key = key
          IN [map EXCEPT ![i] = [@ EXCEPT !.v = AddMetrics(@, item.v, metrics),
                                          !.count = @ + 1]]
     ELSE Append(map, [key |-> key, v |-> item.v,
                       coordinates |-> AggCoords(item), count |-> 1])

RECURSIVE AggFold(_, _, _)
AggFold(map, items, metrics) ==
  IF items = <<>> THEN map
  ELSE AggFold(AggStep(map, Head(items), metrics), Tail(items), metrics)

\* a faulty variant of aggregatedData: the Map of the previous pass is reused
aggregatedDataReused(items, metrics) == AggFold(aggregated, items, metrics)

\* const map = new Map() and the forEach over filteredWithoutSpain
aggregatedData(items, metrics) == AggFold(<<>>, items, metrics)

\* a faulty variant of MetricVals: a value that is missing or not finite counts as zero
MetricValsMissingAsZero(agg, metric) ==
  {IF Get(agg[i], metric).k = "num" THEN Get(agg[i], metric).n ELSE 0 : i \in DOMAIN agg}

\* vals: the finite numbers the aggregates hold for a metric
MetricVals(agg, metric) ==
  {Get(agg[i], metric).n : i \in {j \in DOMAIN agg : Get(agg[j], metric).k = "num"}}

SetMin(S) == CHOOSE x \in S : \A y \in S : x <= y
SetMax(S) == CHOOSE x \in S : \A y \in S : x >= y

\* ranges[metric] exists exactly for the metrics in the function's domain
metricRanges(agg, metrics) ==
  [metric \in {m \in Range(metrics) : MetricVals(agg, m) # {}} |->
     [min |-> SetMin(MetricVals(agg, metric)), max |-> SetMax(MetricVals(agg, metric))]]

\* the global isFinite(v), which converts its argument to a number first
IsFinite(v) == ToNumber(v).k \in {"num", "limit", "huge"}

\* (val - range.min) / (range.max - range.min) for a finite val, as a fraction
\* num/den with den > 0, or the IEEE result of a division by zero
Norm(val, range) ==
  LET num == ToNumber(val).n - range.min
      den == range.max - range.min
  IN CASE den # 0 -> [k |-> "rat", num |-> num, den |-> den]
       [] num = 0 -> [k |-> "nan", num |-> 0, den |-> 1]
       [] OTHER -> [k |-> "inf", num |-> IF num > 0 THEN 1 ELSE -1, den |-> 1]

\* a faulty variant of NormAbove: the cutoff is inclusive (norm >= p/10)
NormAtLeast(norm, p) ==
  CASE norm.k = "rat" -> 10 * norm.num >= p * norm.den
    [] norm.k = "inf" -> norm.num > 0
    [] OTHER -> FALSE

\* norm > p/10
NormAbove(norm, p) ==
  CASE norm.k = "rat" -> 10 * norm.num > p * norm.den
    [] norm.k = "inf" -> norm.num > 0
    [] OTHER -> FALSE

Gray == "#6b7280"
High == "#dc2626"
Medium == "#f59e0b"
Low == "#16a34a"

getMarkerColor(item, metric, rs) ==
  LET val == Get(item, metric)
  IN IF metric \notin DOMAIN rs \/ ~IsFinite(val) THEN Gray
     ELSE LET norm == Norm(val, rs[metric])
          IN IF NormAbove(norm, 7) THEN High
             ELSE IF NormAbove(norm, 4) THEN Medium
             ELSE Low

\* a radius: the fraction num/den (den > 0), or NaN
Radius(num, den) == [k |-> "rat", num |-> num, den |-> den]
RadiusNaN == [k |-> "nan", num |-> 0, den |-> 1]

\* Math.max(5, Math.min(20, 5 + norm * 15))
getMarkerSize(item, metric, rs) ==
  LET val == Get(item, metric)
  IN IF metric \notin DOMAIN rs \/ ~IsFinite(val) THEN Radius(5, 1)
     ELSE LET norm == Norm(val, rs[metric])
          IN CASE norm.k = "nan" -> RadiusNaN
               [] norm.k = "inf" -> IF norm.num > 0 THEN Radius(20, 1) ELSE Radius(5, 1)
               [] OTHER ->
                    LET num == 5 * norm.den + 15 * norm.num
                    IN IF num > 20 * norm.den THEN Radius(20, 1)
                       ELSE IF num < 5 * norm.den THEN Radius(5, 1)
                       ELSE Radius(num, norm.den)

\* the CircleMarker list: nothing is drawn without a selected metric
Markers(agg, metrics, rs) ==
  IF metrics = <<>> THEN <<>>
  ELSE [i \in DOMAIN agg |->
          [fillColor |-> getMarkerColor(agg[i], metrics[1], rs),
           radius |-> getMarkerSize(agg[i], metrics[1], rs)]]

\* one render of MapVisualization: every memo is rebuilt from the props
RenderPass(d, f, metrics) ==
  LET agg == aggregatedData(filteredWithoutSpain(filteredData(d, f)), metrics)
      rs == metricRanges(agg, metrics)
  IN [aggregated |-> agg, ranges |-> rs, markers |-> Markers(agg, metrics, rs)]

(***************************************************************************)
(* The parts of the state a specification does not run                     *)
(***************************************************************************)
RenderIdle ==
  /\ data = <<>>
  /\ filters = NoFilters
  /\ selectedMetrics = <<"emissions">>
  /\ rendered = FALSE
  /\ aggregated = <<>>
  /\ ranges = <<>>
  /\ markers = <<>>

BatchIdle ==
  /\ archive = <<>>
  /\ batchPc = "idle"
  /\ entryIdx = 1
  /\ aggregates = <<>>
  /\ output = <<>>

ParseIdle ==
  /\ csv = [headers |-> <<>>, rows |-> <<>>]
  /\ indexParsed = FALSE
  /\ indexOut = <<>>
  /\ uploadParsed = "no"
  /\ uploadOut = <<>>

NoStatus == [kind |-> "", n |-> 0]

AppIdle ==
  /\ mounted = FALSE
  /\ isLoading = TRUE
  /\ error = "null"
  /\ statusMsg = NoStatus
  /\ isDataModalOpen = FALSE
  /\ uploadIsLoading = [inst \in {"sheet", "dialog"} |-> FALSE]
  /\ toast = "none"
  /\ loads = <<>>

CleanIdle ==
  /\ sanitized = Undef
  /\ numbered = FALSE
  /\ numberOut = Undef
  /\ stringed = FALSE
  /\ stringOut = ""

(***************************************************************************)
(* SpecRender: the render pass over bounded datasets                       *)
(***************************************************************************)
MaxRecords == 3

Point == Coords(415000, -20000)

RecordUniverse ==
  {MkRec(Str("Madrid"), Num(2022), Str("power"), Num(0), NoCoords, Undef),
   MkRec(Str("Madrid"), Num(2022), Str("power"), Num(7), NoCoords, Undef),
   MkRec(Str("Madrid"), Num(2022), Str("power"), Num(7), NoCoords, Num(3)),
   MkRec(Str("Madrid"), Num(2022), Str("power"), Num(7), NoCoords, PosInf),
   MkRec(Str("Madrid"), Num(2022), Str("power"), Num(7), Point, Num(3)),
   MkRec(Str("Atlantis"), Num(2022), Str("power"), Num(7), NoCoords, Undef),
   MkRec(Str("Atlantis"), Num(2022), Str("power"), Num(10), NoCoords, Undef),
   MkRec(Str("Atlantis"), Num(2023), Str("transport"), Num(10), Point, Undef),
   MkRec(Str(Spain), Num(2022), Str("power"), Num(10), NoCoords, Num(3))}

SeqsUpTo(S, n) == UNION {[1..m -> S] : m \in 0..n}

MetricChoices == {<<"emissions">>, <<"intensity">>, <<"emissions", "intensity">>}

FilterKeys == {"region"}

FilterValues(key) ==
  CASE key = "region" -> {Null, Str("Madrid")}
    [] OTHER -> {Null}

InitRender ==
  /\ data \in SeqsUpTo(RecordUniverse, MaxRecords)
  /\ filters = NoFilters
  /\ selectedMetrics = <<"emissions">>
  /\ rendered = FALSE
  /\ aggregated = <<>>
  /\ ranges = <<>>
  /\ markers = <<>>
  /\ BatchIdle
  /\ ParseIdle
  /\ AppIdle
  /\ CleanIdle

ShowPass(pass) ==
  /\ rendered' = TRUE
  /\ aggregated' = pass.aggregated
  /\ ranges' = pass.ranges
  /\ markers' = pass.markers

SetView(d, f, metrics) == ShowPass(RenderPass(d, f, metrics))

\* the first render after mount
Render ==
  /\ ~rendered
  /\ SetView(data, filters, selectedMetrics)
  /\ UNCHANGED <<data, filters, selectedMetrics, batchVars, parseVars, appVars, cleanVars>>

\* the metric selector: setSelectedMetrics, then the re-render
onMetricsChange(metrics) ==
  /\ rendered
  /\ selectedMetrics' = metrics
  /\ SetView(data, filters, metrics)
  /\ UNCHANGED <<data, filters, batchVars, parseVars, appVars, cleanVars>>

\* a faulty variant of handleFilterChange: clearing or changing the category
\* also clears the sector
handleFilterChangeClearsSector(key, value) ==
  /\ rendered
  /\ filters' = IF key = "sectorCategory"
                  THEN [filters EXCEPT ![key] = value, !["sector"] = Null]
                  ELSE [filters EXCEPT ![key] = value]
  /\ SetView(data, filters', selectedMetrics)
  /\ UNCHANGED <<data, selectedMetrics, batchVars, parseVars, appVars, cleanVars>>

\* FilterPanel.handleFilterChange -> Index.handleFiltersChange, then the re-render
handleFilterChange(key, value) ==
  /\ rendered
  /\ filters' = [filters EXCEPT ![key] = value]
  /\ SetView(data, filters', selectedMetrics)
  /\ UNCHANGED <<data, selectedMetrics, batchVars, parseVars, appVars, cleanVars>>

\* FilterPanel.resetFilters
resetFilters ==
  /\ rendered
  /\ filters' = NoFilters
  /\ SetView(data, NoFilters, selectedMetrics)
  /\ UNCHANGED <<data, selectedMetrics, batchVars, parseVars, appVars, cleanVars>>

NextRender ==
  \/ Render
  \/ \E metrics \in MetricChoices : onMetricsChange(metrics)
  \/ \E key \in FilterKeys : \E value \in FilterValues(key) :
       handleFilterChange(key, value)
  \/ resetFilters

SpecRender == InitRender /\ [][NextRender]_vars

(***************************************************************************)
(* Claims on the render pass (SpecRender)                                  *)
(***************************************************************************)
\* the records the aggregation pass runs over
PassInput == filteredWithoutSpain(filteredData(data, filters))

\* the records of the pass input that share a grouping key
Group(key) ==
  LET Same(item) == AggKey(item) = key
  IN SelectSeq(PassInput, Same)

\* the sum of a metric over the records on which it is present and numeric
RECURSIVE SumPresent(_, _)
SumPresent(items, metric) ==
  IF items = <<>> THEN Num(0)
  ELSE LET v == Get(Head(items), metric)
           rest == SumPresent(Tail(items), metric)
       IN IF IsNumber(v) THEN Add(v, rest) ELSE rest

HasMetric(items, metric) == \E j \in DOMAIN items : IsNumber(Get(items[j], metric))

\* C2: after a runtime aggregation pass every grouping key has one aggregate,
\* whose count is the size of its group and whose value for every selected
\* metric is the sum of that metric over the records of the group that carry
\* it as a number, whichever record of the group came first.
C2_AggregateIsGroupSum ==
  rendered =>
    /\ \A j \in DOMAIN PassInput :
         \E i \in DOMAIN aggregated : aggregated[i].key = AggKey(PassInput[j])
    /\ \A i \in DOMAIN aggregated :
         LET a == aggregated[i]
             g == Group(a.key)
         IN /\ a.count = Len(g)
            /\ \A m \in Range(selectedMetrics) :
                 HasMetric(g, m) => Get(a, m) = SumPresent(g, m)

Perms(n) == {p \in [1..n -> 1..n] : \A i, j \in 1..n : p[i] = p[j] => i = j}

Permute(seq, p) == [i \in DOMAIN seq |-> seq[p[i]]]

\* what a pass yields, without the order of the aggregates: key, count and
\* the value of every selected metric
AggSummary(agg, metrics) ==
  {[key |-> agg[i].key, count |-> agg[i].count,
    sums |-> [m \in Range(metrics) |-> Get(agg[i], m)]] : i \in DOMAIN agg}

\* C3: permuting the input records changes no aggregate's summed metrics or
\* count (runtime pass; the batch pass is BatchPermutationInvariant below).
C3_PermutationInvariant ==
  rendered =>
    \A p \in Perms(Len(data)) :
      AggSummary(RenderPass(Permute(data, p), filters, selectedMetrics).aggregated,
                 selectedMetrics)
        = AggSummary(aggregated, selectedMetrics)

\* the finite numbers the current aggregates hold for a metric
FiniteValues(metric) ==
  {Get(aggregated[i], metric).n :
     i \in {j \in DOMAIN aggregated : Get(aggregated[j], metric).k = "num"}}

\* C7: a selected metric has a range exactly when some aggregate holds a
\* finite value for it; min and max are then themselves finite aggregate
\* values (so nothing missing or non-finite was counted, as zero or
\* otherwise) and every finite aggregate value lies between them.
C7_RangeCorrect ==
  rendered =>
    \A m \in Range(selectedMetrics) :
      /\ (m \in DOMAIN ranges) <=> (FiniteValues(m) # {})
      /\ m \in DOMAIN ranges =>
           /\ ranges[m].min \in FiniteValues(m)
           /\ ranges[m].max \in FiniteValues(m)
           /\ \A v \in FiniteValues(m) : ranges[m].min <= v /\ v <= ranges[m].max

\* a state where the range of intensity was computed past an aggregate with
\* an infinite value and an aggregate without the metric
C7_Witness ==
  /\ rendered
  /\ "intensity" \in Range(selectedMetrics)
  /\ "intensity" \in DOMAIN ranges
  /\ \E i \in DOMAIN aggregated : Get(aggregated[i], "intensity").k = "inf"
  /\ \E i \in DOMAIN aggregated : Get(aggregated[i], "intensity").k = "undef"

\* the displayed metric and, for marker i, its value and range
Displayed == selectedMetrics[1]
ValueAt(i) == Get(aggregated[i], Displayed)
HasProperRange(i) ==
  /\ Displayed \in DOMAIN ranges
  /\ ValueAt(i).k = "num"
  /\ ranges[Displayed].min < ranges[Displayed].max

\* 10 * (v - min) compared with p * (max - min): the normalized value against p/10
TenNum(i) == 10 * (ValueAt(i).n - ranges[Displayed].min)
Cut(p) == p * (ranges[Displayed].max - ranges[Displayed].min)

\* C8 as claimed: a normalized value of exactly 0.7 is in the high bucket.
C8_CutoffInclusive ==
  (rendered /\ selectedMetrics # <<>>) =>
    \A i \in DOMAIN markers :
      (HasProperRange(i) /\ TenNum(i) = Cut(7)) => markers[i].fillColor = High

\* C8 amended: the 0.7 cutoff is exclusive; the high bucket is exactly the
\* normalized values above 0.7, and a value of exactly 0.7 is medium.
C8_CutoffExclusive ==
  (rendered /\ selectedMetrics # <<>>) =>
    \A i \in DOMAIN markers :
      HasProperRange(i) =>
        /\ (markers[i].fillColor = High) <=> (TenNum(i) > Cut(7))
        /\ TenNum(i) = Cut(7) => markers[i].fillColor = Medium

C8_Witness ==
  /\ rendered
  /\ selectedMetrics # <<>>
  /\ \E i \in DOMAIN markers : HasProperRange(i) /\ TenNum(i) = Cut(7)

\* the range of the displayed metric is degenerate, or marker i has no finite value
Degenerate(i) ==
  \/ Displayed \notin DOMAIN ranges
  \/ ranges[Displayed].min = ranges[Displayed].max
  \/ ValueAt(i).k # "num"

\* C9: with a degenerate range, or a value that is missing or not finite,
\* the marker is gray.
C9_DegenerateIsGray ==
  (rendered /\ selectedMetrics # <<>>) =>
    \A i \in DOMAIN markers : Degenerate(i) => markers[i].fillColor = Gray

\* C10: the radius is a number in [5, 20], and is 5 with a degenerate range
\* or a value that is not finite.
C10_RadiusInRange ==
  (rendered /\ selectedMetrics # <<>>) =>
    \A i \in DOMAIN markers :
      LET r == markers[i].radius
      IN /\ r.k = "rat"
         /\ 5 * r.den <= r.num /\ r.num <= 20 * r.den
         /\ Degenerate(i) => r.num = 5 * r.den

(***************************************************************************)
(* The batch driver.  A CSV cell is a string; text that is built or split  *)
(* (the composite key, an output line) is a sequence of tokens.            *)
(***************************************************************************)
\* parseFloat(cell): coordinates in units of 0.0001 degree, quantities in units
ParseFloat(cell) ==
  CASE cell = "40.4165" -> Num(404165)
    [] cell = "-3.7026" -> Num(-37026)
    [] cell = "43.2229" -> Num(432229)
    [] cell = "-3.4609" -> Num(-34609)
    [] cell = "100" -> Num(100)
    [] cell = "50" -> Num(50)
    [] OTHER -> NaN

\* new Date(cell).getFullYear()
FullYear(cell) ==
  CASE cell = "2022-01-01T00:00:00Z" -> Num(2022)
    [] cell = "2023-01-01T00:00:00Z" -> Num(2023)
    [] OTHER -> NaN

\* String(number)
NumText(v) == IF v.k = "num" THEN ToString(v.n)
              ELSE IF v.k = "nan" THEN "NaN"
              ELSE IF v.n > 0 THEN "Infinity" ELSE "-Infinity"

\* d * d as <<hi, lo>>, standing for hi * 10^6 + lo with 0 <= lo < 10^6
\* (the products of coordinates in 0.0001 degree do not fit 32 bits)
Square(d) ==
  LET x == IF d < 0 THEN -d ELSE d
      a == x \div 1000
      b == x % 1000
      low == 2 * a * b * 1000 + b * b
  IN <<a * a + low \div 1000000, low % 1000000>>

\* distance(a, b) without the square root: closestRegion only compares
\* distances, and the square root is increasing
distance(a, b) ==
  LET dLat == Square(a[1] - b[1])
      dLon == Square(a[2] - b[2])
      lo == dLat[2] + dLon[2]
  IN <<dLat[1] + dLon[1] + lo \div 1000000, lo % 1000000>>

\* a faulty variant of Closer: a later anchor at the same distance replaces the best
CloserOrEqual(dist, bestDist) ==
  dist[1] < bestDist[1] \/ (dist[1] = bestDist[1] /\ dist[2] <= bestDist[2])

\* dist < bestDist
Closer(dist, bestDist) ==
  dist[1] < bestDist[1] \/ (dist[1] = bestDist[1] /\ dist[2] < bestDist[2])

\* the loop over regions.slice(1), from index i with the best anchor so far
RECURSIVE ClosestScan(_, _, _, _, _)
ClosestScan(lat, lon, i, best, bestDist) ==
  IF i > Len(regions) THEN best
  ELSE LET dist == distance(<<lat, lon>>, regions[i].coords)
       IN IF Closer(dist, bestDist)
          THEN ClosestScan(lat, lon, i + 1, regions[i], dist)
          ELSE ClosestScan(lat, lon, i + 1, best, bestDist)

closestRegion(lat, lon) ==
  ClosestScan(lat, lon, 2, regions[1],
              distance(<<lat, lon>>, regions[1].coords)).name

\* the region a record is assigned
RegionOf(r) ==
  LET lat == ParseFloat(r.lat)
      lon == ParseFloat(r.lon)
  IN IF lat.k # "nan" /\ lon.k # "nan" THEN closestRegion(lat.n, lon.n) ELSE Spain

\* a faulty variant of BatchKey: the sector is not part of the key
BatchKeyNoSector(r) ==
  <<RegionOf(r), "|", NumText(FullYear(r.start_time)), "|">>

\* `${region}|${year}|${sector}` with sector = `${r.sector}:${r.subsector}`
BatchKey(r) ==
  <<RegionOf(r), "|", NumText(FullYear(r.start_time)), "|">>
    \o r.sector \o <<":">> \o r.subsector

\* the quantity a record adds
Quantity(r) ==
  LET emissions == ParseFloat(r.emissions_quantity)
  IN IF emissions.k = "nan" THEN Num(0) ELSE emissions

\* Map.get and Map.set; a Map keeps its keys in insertion order
MapHas(map, key) == \E i \in DOMAIN map : map[i].key = key
MapGet(map, key) ==
  IF MapHas(map, key)
  THEN map[CHOOSE i \in DOMAIN map : map[i].key = key].value
  ELSE Undef
MapSet(map, key, value) ==
  IF MapHas(map, key)
  THEN [i \in DOMAIN map |-> IF map[i].key = key THEN [map[i] EXCEPT !.value = value]
                                                ELSE map[i]]
  ELSE Append(map, [key |-> key, value |-> value])

\* a faulty variant of PrevValue: the stored sum is not read back
PrevValueZero(map, key) == Num(0)

\* aggregates.get(key) || 0
PrevValue(map, key) == Or(MapGet(map, key), Num(0))

\* the records callback of one entry
RECURSIVE AddRecords(_, _)
AddRecords(map, records) ==
  IF records = <<>> THEN map
  ELSE LET r == Head(records)
           key == BatchKey(r)
       IN AddRecords(MapSet(map, key, Add(PrevValue(map, key), Quantity(r))),
                     Tail(records))

\* key.split('|') and rows.join: the pieces of a token sequence between separators
RECURSIVE Split(_, _)
Split(tokens, sep) ==
  IF \A i \in DOMAIN tokens : tokens[i] # sep THEN <<tokens>>
  ELSE LET i == CHOOSE j \in DOMAIN tokens :
                  tokens[j] = sep /\ \A h \in 1..(j - 1) : tokens[h] # sep
       IN <<SubSeq(tokens, 1, i - 1)>> \o Split(SubSeq(tokens, i + 1, Len(tokens)), sep)

Piece(pieces, i) == IF i \in DOMAIN pieces THEN pieces[i] ELSE <<"undefined">>

\* `${region},${year},${sector},${value}` for one Map entry
OutputRow(entry) ==
  LET pieces == Split(entry.key, "|")
  IN Piece(pieces, 1) \o <<",">> \o Piece(pieces, 2) \o <<",">> \o Piece(pieces, 3)
       \o <<",", NumText(entry.value)>>

OutputRows(map) ==
  <<<<"region,year,sector,emissions">>>> \o [i \in DOMAIN map |-> OutputRow(map[i])]

\* zip.getEntries().filter(e => e.entryName.endsWith(...))
Entries == LET Matches(e) == e.matches IN SelectSeq(archive, Matches)

(***************************************************************************)
(* SpecBatch: main() over bounded archives                                 *)
(***************************************************************************)
MaxEntries == 2

BatchRecord(lat, lon, start, sector, subsector, quantity) ==
  [lat |-> lat, lon |-> lon, start_time |-> start, sector |-> sector,
   subsector |-> subsector, emissions_quantity |-> quantity]

Madrid100 ==
  BatchRecord("40.4165", "-3.7026", "2022-01-01T00:00:00Z", <<"power">>, <<"coal">>, "100")
Madrid50 ==
  BatchRecord("40.4165", "-3.7026", "2022-01-01T00:00:00Z", <<"power">>, <<"coal">>, "50")
MadridUnparsed ==
  BatchRecord("40.4165", "-3.7026", "2023-01-01T00:00:00Z", <<"power">>, <<"coal">>, "n/a")
Equidistant100 ==
  BatchRecord("43.2229", "-3.4609", "2022-01-01T00:00:00Z", <<"power">>, <<"coal">>, "100")
NoLat50 ==
  BatchRecord("", "-3.7026", "2022-01-01T00:00:00Z", <<"transport">>, <<"road">>, "50")

MadridRoad50 ==
  BatchRecord("40.4165", "-3.7026", "2022-01-01T00:00:00Z", <<"transport">>, <<"road">>, "50")

\* a record whose sector cell holds the character |
MadridPipe50 ==
  BatchRecord("40.4165", "-3.7026", "2022-01-01T00:00:00Z", <<"oil", "|", "gas">>,
              <<"flaring">>, "50")

BatchRecordUniverse ==
  {Madrid100, Madrid50, MadridUnparsed, Equidistant100, NoLat50, MadridRoad50,
   MadridPipe50}

\* an archive entry: whether its name matches, whether csv-parse fails on
\* its content, and the records csv-parse yields otherwise
EntryUniverse ==
  {[matches |-> TRUE, malformed |-> FALSE, records |-> rs] :
     rs \in {<<>>} \cup {<<r>> : r \in BatchRecordUniverse}
             \cup {<<Madrid100, Madrid50>>, <<MadridUnparsed, Madrid100>>,
                   <<Equidistant100, NoLat50>>}}
  \cup {[matches |-> TRUE, malformed |-> TRUE, records |-> <<>>],
        [matches |-> FALSE, malformed |-> FALSE, records |-> <<Madrid100>>]}

InitBatch ==
  /\ archive \in SeqsUpTo(EntryUniverse, MaxEntries)
  /\ batchPc = "download"
  /\ entryIdx = 1
  /\ aggregates = <<>>
  /\ output = <<>>
  /\ RenderIdle
  /\ ParseIdle
  /\ AppIdle
  /\ CleanIdle

\* downloadZip resolves: parseData starts with an empty Map
DownloadOk ==
  /\ batchPc = "download"
  /\ batchPc' = "parse"
  /\ UNCHANGED <<archive, entryIdx, aggregates, output, renderVars, parseVars, appVars, cleanVars>>

\* downloadZip rejects: main().catch exits with status 1
DownloadFails ==
  /\ batchPc = "download"
  /\ batchPc' = "exit1"
  /\ UNCHANGED <<archive, entryIdx, aggregates, output, renderVars, parseVars, appVars, cleanVars>>

\* one iteration of the loop over entries: the parse callback adds the records
ParseEntry ==
  /\ batchPc = "parse"
  /\ entryIdx <= Len(Entries)
  /\ ~Entries[entryIdx].malformed
  /\ aggregates' = AddRecords(aggregates, Entries[entryIdx].records)
  /\ entryIdx' = entryIdx + 1
  /\ UNCHANGED <<archive, batchPc, output, renderVars, parseVars, appVars, cleanVars>>

\* the parse callback gets err: the promise rejects, parseData throws and
\* main().catch exits with status 1
ParseEntryFails ==
  /\ batchPc = "parse"
  /\ entryIdx <= Len(Entries)
  /\ Entries[entryIdx].malformed
  /\ batchPc' = "exit1"
  /\ UNCHANGED <<archive, entryIdx, aggregates, output, renderVars, parseVars, appVars, cleanVars>>

\* after the loop: the rows are written to OUTPUT_CSV
WriteOutput ==
  /\ batchPc = "parse"
  /\ entryIdx > Len(Entries)
  /\ output' = OutputRows(aggregates)
  /\ batchPc' = "written"
  /\ UNCHANGED <<archive, entryIdx, aggregates, renderVars, parseVars, appVars, cleanVars>>

NextBatch ==
  \/ DownloadOk
  \/ DownloadFails
  \/ ParseEntry
  \/ ParseEntryFails
  \/ WriteOutput

SpecBatch == InitBatch /\ [][NextBatch]_vars

(***************************************************************************)
(* Claims on the batch driver (SpecBatch)                                  *)
(***************************************************************************)
RECURSIVE Flatten(_)
Flatten(es) == IF es = <<>> THEN <<>> ELSE Head(es).records \o Flatten(Tail(es))

\* every record of every matching entry of the archive
AllRecords == Flatten(Entries)

\* the records of the entries the loop has been through
ProcessedRecords == Flatten(SubSeq(Entries, 1, entryIdx - 1))

\* the sum of the parsed quantities of the records with a key; a quantity
\* that does not parse adds nothing
RECURSIVE KeyTotal(_, _)
KeyTotal(records, key) ==
  IF records = <<>> THEN 0
  ELSE LET r == Head(records)
           q == ParseFloat(r.emissions_quantity)
       IN (IF BatchKey(r) = key /\ q.k = "num" THEN q.n ELSE 0)
            + KeyTotal(Tail(records), key)

LoopDone == batchPc \in {"parse", "written"} /\ entryIdx > Len(Entries)

\* C4: once every entry has been processed the one Map holds, for each
\* composite key, a single aggregate whose value is the sum of the quantity
\* of every record of every entry with that key.
C4_SharedMapSums ==
  LoopDone =>
    /\ \A j \in DOMAIN AllRecords : MapHas(aggregates, BatchKey(AllRecords[j]))
    /\ \A i \in DOMAIN aggregates :
         /\ aggregates[i].value = Num(KeyTotal(AllRecords, aggregates[i].key))
         /\ \A h \in DOMAIN aggregates : aggregates[h].key = aggregates[i].key => h = i
         /\ \E j \in DOMAIN AllRecords : BatchKey(AllRecords[j]) = aggregates[i].key

\* Madrid, 2022, power with 100 in one entry and 50 in another: one row with 150
C4_Witness ==
  /\ batchPc = "written"
  /\ Len(Entries) = 2
  /\ Len(Entries[1].records) = 1
  /\ Len(Entries[2].records) = 1
  /\ Len(aggregates) = 1
  /\ aggregates[1].value = Num(150)
  /\ output[2] = <<"Madrid", ",", "2022", ",", "power", ":", "coal", ",", "150">>

\* anchor i is strictly nearer to (lat, lon) than anchor j, in the plane of degrees
Nearer(lat, lon, i, j) ==
  LET di == <<Square(lat - regions[i].coords[1]), Square(lon - regions[i].coords[2])>>
      dj == <<Square(lat - regions[j].coords[1]), Square(lon - regions[j].coords[2])>>
      hi == (di[1][1] + di[2][1]) - (dj[1][1] + dj[2][1])
      lo == (di[1][2] + di[2][2]) - (dj[1][2] + dj[2][2])
  IN \/ hi < -2
     \/ hi \in -2..2 /\ hi * 1000000 + lo < 0

\* the first-declared anchor among those at minimal distance
NearestFirst(lat, lon) ==
  regions[CHOOSE i \in DOMAIN regions :
            /\ \A j \in DOMAIN regions : ~Nearer(lat, lon, j, i)
            /\ \A j \in 1..(i - 1) : Nearer(lat, lon, i, j)].name

\* the anchors' centroids, a point at the same distance from Cantabria and
\* País Vasco, and a grid over the bounding box of Spain
ProbePoints ==
  {regions[i].coords : i \in DOMAIN regions}
  \cup {<<432229, -34609>>}
  \cup {<<270000 + 20000 * a, -180000 + 20000 * b>> : a \in 0..8, b \in 0..11}

ProbesResolve ==
  /\ \A p \in ProbePoints : closestRegion(p[1], p[2]) = NearestFirst(p[1], p[2])
  /\ \A i \in DOMAIN regions :
       closestRegion(regions[i].coords[1], regions[i].coords[2]) = regions[i].name
  /\ closestRegion(432229, -34609) = "Cantabria"

\* the region the claim gives a record
ExpectedRegion(r) ==
  LET lat == ParseFloat(r.lat)
      lon == ParseFloat(r.lon)
  IN IF lat.k = "nan" \/ lon.k = "nan" THEN Spain ELSE NearestFirst(lat.n, lon.n)

BatchPermutationInvariant ==
  \A e \in DOMAIN Entries :
    \A p \in Perms(Len(Entries[e].records)) :
      Range(AddRecords(<<>>, Permute(Entries[e].records, p)))
        = Range(AddRecords(<<>>, Entries[e].records))

(***************************************************************************)
(* The two runtime CSV parsers                                             *)
(***************************************************************************)

\* SPAIN_BOUNDS, in units of 0.0001 degree
SPAIN_LAT_MIN == 276000
SPAIN_LAT_MAX == 438000
SPAIN_LNG_MIN == -182000
SPAIN_LNG_MAX == 43000

validateCoordinates(lat, lng) ==
  /\ lat >= SPAIN_LAT_MIN
  /\ lat <= SPAIN_LAT_MAX
  /\ lng >= SPAIN_LNG_MIN
  /\ lng <= SPAIN_LNG_MAX

\* a faulty variant of Clamp: the number is returned as it is
ClampNone(num) == num

\* Math.max(-1e12, Math.min(1e12, num)) for a finite num
Clamp(num) == IF num.k = "huge" THEN Limit(num.n) ELSE num

\* v >= c and v <= c for a finite number v and an integer c between the limits
AtLeast(v, c) == IF v.k = "num" THEN v.n >= c ELSE v.n > 0
AtMost(v, c) == IF v.k = "num" THEN v.n <= c ELSE v.n < 0

sanitizeNumber(value) ==
  LET num == ToNumber(value)
  IN  IF num.k \in {"nan", "inf"} THEN Num(0) ELSE Clamp(num)

\* String.prototype.trim
Trim(text) ==
  CASE text = " Madrid " -> "Madrid"
    [] text = " region" -> "region"
    [] OTHER -> text

\* replace(/"/g, '')
Unquote(text) ==
  CASE text = "\"Madrid\"" -> "Madrid"
    [] OTHER -> text

\* a text of 201 characters and its first 200
LongText == "Madrid...(201 characters)"
LongTextCut == "Madrid...(200 characters)"

\* substring(0, 200)
Substring200(text) == IF text = LongText THEN LongTextCut ELSE text

\* DOMPurify.sanitize with no tag and no attribute allowed
sanitizeHtml(content) ==
  CASE content = "<b>Madrid</b>" -> "Madrid"
    [] content = "<script></script>" -> ""
    [] OTHER -> content

\* the string the sanitiser returns, for any value
sanitizeString(value) ==
  IF value.k # "str" THEN "" ELSE sanitizeHtml(Substring200(Trim(value.s)))

\* a || b || ... || last over the named fields of an object
RECURSIVE OrChain(_, _, _)
OrChain(obj, names, last) ==
  IF names = <<>> THEN last
  ELSE Or(IF Head(names) \in DOMAIN obj THEN obj[Head(names)] ELSE Undef,
          OrChain(obj, Tail(names), last))

RegionNames == <<"region", "Region", "autonomous_community", "comunidad_autonoma">>
YearNames == <<"year", "Year", "año">>
\* Index.parseCSV reads the third year alias under the name its source
\* spells, which is not the header año
IndexYearNames == <<"year", "Year", "aÃ±o">>
SectorNames == <<"sector", "Sector", "industry", "industria">>
EmissionsNames == <<"emissions", "Emissions", "emisiones", "co2", "CO2">>
RecordKeys == {"region", "year", "sector", "emissions", "coordinates"}

Min(a, b) == IF a < b THEN a ELSE b

\* Papa.parse with header: true: one object per data line, keyed by the
\* transformed header; a short line leaves the trailing keys out, a long
\* line puts its surplus cells under __parsed_extra
PapaRow(headers, cells) ==
  LET hs == [i \in DOMAIN headers |-> sanitizeString(Str(Unquote(headers[i])))]
      cs == [i \in DOMAIN cells |-> Unquote(Trim(cells[i]))]
      n == Min(Len(hs), Len(cs))
      named == [h \in {hs[i] : i \in 1..n} |->
                 Str(cs[CHOOSE i \in 1..n : hs[i] = h
                                              /\ \A j \in 1..n : hs[j] = h => j <= i])]
  IN  IF Len(cs) > Len(hs)
      THEN ("__parsed_extra" :> Arr(Len(cs) - Len(hs), cs[Len(hs) + 1])) @@ named
      ELSE named

\* the sanitizedRow of Index.parseCSV
SanitizedRow(row) ==
  LET kept == {key \in DOMAIN row : Truthy(row[key])}
      from(cleanKey) == CHOOSE key \in kept : sanitizeString(Str(key)) = cleanKey
  IN  [cleanKey \in {sanitizeString(Str(key)) : key \in kept} |->
         IF ToNumber(row[from(cleanKey)]).k # "nan"
         THEN sanitizeNumber(row[from(cleanKey)])
         ELSE Str(sanitizeString(row[from(cleanKey)]))]

\* one row of Index.parseCSV: the record pushed, or none
IndexRecord(row) ==
  LET sanitizedRow == SanitizedRow(row)
      region == sanitizeString(OrChain(sanitizedRow, RegionNames, Str("")))
      year == Or(sanitizeNumber(OrChain(sanitizedRow, IndexYearNames, Str(""))), Num(0))
      sector == sanitizeString(OrChain(sanitizedRow, SectorNames, Str("")))
      emissions == Or(sanitizeNumber(OrChain(sanitizedRow, EmissionsNames, Str(""))), Num(0))
      lat == IF "lat" \in DOMAIN sanitizedRow THEN sanitizeNumber(sanitizedRow["lat"]) ELSE Undef
      lng == IF "lng" \in DOMAIN sanitizedRow THEN sanitizeNumber(sanitizedRow["lng"]) ELSE Undef
      \* 1e12 and -1e12 lie outside the bounding box
      coordinates == IF /\ lat # Undef /\ lng # Undef
                        /\ lat.k = "num" /\ lng.k = "num"
                        /\ validateCoordinates(lat.n, lng.n)
                     THEN Coords(lat.n, lng.n) ELSE NoCoords
      extras == {k \in DOMAIN sanitizedRow :
                   /\ IsNumber(sanitizedRow[k])
                   /\ k \notin {"year", "lat", "lng"}
                   /\ k \notin RecordKeys}
      record == [v |-> [k \in extras |-> sanitizedRow[k]]
                         @@ [region |-> Str(region), year |-> year,
                             sector |-> Str(sector), emissions |-> emissions],
                 coordinates |-> coordinates]
  IN  IF /\ region # ""
         /\ AtLeast(year, 1900)
         /\ AtMost(year, 2100)
         /\ AtLeast(emissions, 0)
      THEN <<record>> ELSE <<>>

RECURSIVE IndexRows(_, _)
IndexRows(headers, rows) ==
  IF rows = <<>> THEN <<>>
  ELSE IndexRecord(PapaRow(headers, Head(rows))) \o IndexRows(headers, Tail(rows))

\* parseCSV of pages/Index.tsx
parseCSV(text) == IndexRows(text.headers, text.rows)

\* [Number(lat), Number(lng)]; a pair with a component that is NaN, infinite
\* or beyond 1e12 in size is kept apart from the other pairs
NumberPair(lat, lng) ==
  IF lat.k = "num" /\ lng.k = "num" THEN Coords(lat.n, lng.n)
  ELSE [k |-> "other", lat |-> 0, lng |-> 0]

\* one line of DataUpload.parseCSV: the record pushed, or none
UploadRecord(headers, values) ==
  LET hs == [i \in DOMAIN headers |-> Unquote(Trim(headers[i]))]
      vs == [i \in DOMAIN values |-> Unquote(Trim(values[i]))]
      cell(h) == vs[CHOOSE i \in DOMAIN hs : hs[i] = h
                                              /\ \A j \in DOMAIN hs : hs[j] = h => j <= i]
      row == [h \in Range(hs) |->
                IF CellNumber(cell(h)).k # "nan" /\ cell(h) # ""
                THEN CellNumber(cell(h)) ELSE Str(cell(h))]
      latlng == /\ "lat" \in DOMAIN row /\ Truthy(row["lat"])
                /\ "lng" \in DOMAIN row /\ Truthy(row["lng"])
      standardRow ==
        [v |-> row @@ [region |-> OrChain(row, RegionNames, Str("")),
                       year |-> OrChain(row, YearNames, Num(0)),
                       sector |-> OrChain(row, SectorNames, Str("")),
                       emissions |-> OrChain(row, EmissionsNames, Num(0))],
         coordinates |-> IF latlng
                         THEN NumberPair(ToNumber(row["lat"]), ToNumber(row["lng"]))
                         ELSE NoCoords]
  IN  IF Len(vs) # Len(hs) THEN <<>>
      ELSE IF /\ Truthy(standardRow.v["region"])
              /\ Truthy(standardRow.v["year"])
              /\ Truthy(standardRow.v["emissions"])
           THEN <<standardRow>> ELSE <<>>

RECURSIVE UploadRows(_, _)
UploadRows(headers, rows) ==
  IF rows = <<>> THEN <<>>
  ELSE UploadRecord(headers, Head(rows)) \o UploadRows(headers, Tail(rows))

\* parseCSV of components/DataUpload.tsx; it throws on a text with no data line
UploadThrows(text) == Len(text.rows) < 1

uploadParseCSV(text) == UploadRows(text.headers, text.rows)

(***************************************************************************)
(* SpecParse: both parsers applied to bounded CSV texts                    *)
(***************************************************************************)

MaxRows == 2

PlainHeaders == <<"region", "year", "sector", "emissions">>
PlainRows ==
  { <<"Madrid", "2022", "power", "10">>,
    <<"Madrid", "2023", "power", "7">>,
    <<"Andalucía", "1800", "transport", "10">>,
    <<"", "2022", "power", "10">>,
    <<"Madrid", "2022", "power", "0">>,
    <<"Madrid", "2022", "power", "-5">>,
    <<"Madrid", "abc", "power", "10">>,
    <<"<b>Madrid</b>", "2022", "power", "10">>,
    <<LongText, "2022", "power", "10">>,
    <<"Madrid", "2022", "power">>,
    <<"Madrid", "2022", "power", "10", "7">> }

PlacedHeaders == <<"region", "year", "sector", "emissions", "lat", "lng">>
PlacedRows ==
  { <<"Madrid", "2022", "power", "10", "40.4165", "-3.7026">>,
    <<"Madrid", "2022", "power", "10", "90.0", "1.0">>,
    <<"Madrid", "2022", "power", "10", "0.0", "-3.7026">>,
    <<"Madrid", "2022", "power", "10", "", "-3.7026">>,
    <<"Madrid", "2022", "power", "10", "90.0", "0.0">>,
    <<"Madrid", "2022", "power", "10", "abc", "-3.7026">> }

AliasHeaders == <<"Region", "año", "industria", "co2", "intensity">>
AliasRows ==
  { <<"Madrid", "2022", "power", "10", "3">>,
    <<"Madrid", "2022", "power", "10", "n/a">>,
    <<"Madrid", "2022", "power", "10", "">>,
    <<" Madrid ", "2022", "power", "10", "Infinity">> }

DoubleHeaders == <<"region", "Region", "emissions", "Emissions", "year">>
DoubleRows ==
  { <<"Madrid", "Sevilla", "10", "5", "2022">>,
    <<"", "Sevilla", "0", "5", "2022">>,
    <<"5", "Sevilla", "10", "", "2022">> }

CapitalHeaders == <<"Region", "Year", "Sector", "Emissions", "co2">>
CapitalRows ==
  { <<"Madrid", "2022", "power", "10", "5">>,
    <<"Madrid", "2022", "power", "0", "5">>,
    <<"Madrid", "2022", "power", "", "5">> }

ExtraHeaders == <<"region", "year", "sector", "emissions", "intensity">>
ExtraRows ==
  { <<"Madrid", "2022", "power", "10", "3">>,
    <<"Madrid", "2022", "power", "10", "n/a">>,
    <<"Madrid", "2022", "power", "10", "">> }

Texts(headers, rows) ==
  {[headers |-> headers, rows |-> rs] : rs \in SeqsUpTo(rows, MaxRows)}

\* the limits of utils/security.ts
MAX_FILE_SIZE == 10485760
MAX_CSV_ROWS == 50000
MAX_CSV_COLUMNS == 20

validateFileSize(file) == file.size <= MAX_FILE_SIZE

\* a header of 21 columns and a data line under it
WideHeaders ==
  <<"region", "year", "sector", "emissions", "c05", "c06", "c07", "c08", "c09",
    "c10", "c11", "c12", "c13", "c14", "c15", "c16", "c17", "c18", "c19", "c20",
    "c21">>
WideRow ==
  <<"Madrid", "2022", "power", "10", "n/a", "n/a", "n/a", "n/a", "n/a", "n/a",
    "n/a", "n/a", "n/a", "n/a", "n/a", "n/a", "n/a", "n/a", "n/a", "n/a", "n/a">>
WideCsv == [headers |-> WideHeaders, rows |-> <<WideRow>>]

CsvUniverse ==
  Texts(PlainHeaders, PlainRows) \cup Texts(PlacedHeaders, PlacedRows)
    \cup Texts(AliasHeaders, AliasRows) \cup Texts(DoubleHeaders, DoubleRows)
    \cup Texts(CapitalHeaders, CapitalRows) \cup Texts(ExtraHeaders, ExtraRows)
    \cup {WideCsv}

InitParse ==
  /\ csv \in CsvUniverse
  /\ indexParsed = FALSE
  /\ indexOut = <<>>
  /\ uploadParsed = "no"
  /\ uploadOut = <<>>
  /\ RenderIdle
  /\ BatchIdle
  /\ AppIdle
  /\ CleanIdle

\* Index.tsx hands the text to its parseCSV
ParseIndex ==
  /\ ~indexParsed
  /\ indexParsed' = TRUE
  /\ indexOut' = parseCSV(csv)
  /\ UNCHANGED <<csv, uploadParsed, uploadOut, renderVars, batchVars, appVars, cleanVars>>

\* DataUpload.tsx hands the text to its parseCSV, which returns the records
ParseUpload ==
  /\ uploadParsed = "no"
  /\ ~UploadThrows(csv)
  /\ uploadParsed' = "returned"
  /\ uploadOut' = uploadParseCSV(csv)
  /\ UNCHANGED <<csv, indexParsed, indexOut, renderVars, batchVars, appVars, cleanVars>>

\* DataUpload.tsx hands the text to its parseCSV, which throws
ParseUploadThrows ==
  /\ uploadParsed = "no"
  /\ UploadThrows(csv)
  /\ uploadParsed' = "threw"
  /\ UNCHANGED <<csv, indexParsed, indexOut, uploadOut, renderVars, batchVars, appVars, cleanVars>>

NextParse ==
  \/ ParseIndex
  \/ ParseUpload
  \/ ParseUploadThrows

SpecParse == InitParse /\ [][NextParse]_vars

\* the record invariants of a record
RegionOk(rec) == Get(rec, "region").k = "str" /\ Get(rec, "region").s # ""
YearOk(rec) ==
  /\ Get(rec, "year").k = "num"
  /\ Get(rec, "year").n >= 1900
  /\ Get(rec, "year").n <= 2100
EmissionsOk(rec) == Get(rec, "emissions").k = "num" /\ Get(rec, "emissions").n >= 0
CoordinatesOk(rec) ==
  rec.coordinates.k = "undef"
    \/ (rec.coordinates.k = "pair"
          /\ validateCoordinates(rec.coordinates.lat, rec.coordinates.lng))
RecordOk(rec) == RegionOk(rec) /\ YearOk(rec) /\ EmissionsOk(rec) /\ CoordinatesOk(rec)

\* C1: every record either runtime parser emits has a non-empty region, a
\* year in [1900, 2100], finite emissions >= 0 and, when present,
\* coordinates inside the Spain bounding box
C1_ParsedRecordsValid ==
  /\ \A i \in DOMAIN indexOut : RecordOk(indexOut[i])
  /\ \A i \in DOMAIN uploadOut : RecordOk(uploadOut[i])

\* the half of C1 that is about Index.parseCSV alone
IndexRecordsValid ==
  \A i \in DOMAIN indexOut : RecordOk(indexOut[i])

\* the upload parser has emitted a record with a year outside [1900, 2100]
UploadEmitsBadYear ==
  \E i \in DOMAIN uploadOut : RegionOk(uploadOut[i]) /\ ~YearOk(uploadOut[i])

(***************************************************************************)
(* Index: the dataset loads of the mounted application                     *)
(***************************************************************************)

\* the keys of the model in the order Array.prototype.sort puts them
KeyOrder ==
  <<"CO2", "Emissions", "Region", "Sector", "Year", "__parsed_extra",
    "autonomous_community", "año", "co2", "comunidad_autonoma", "emisiones",
    "emissions", "industria", "industry", "intensity", "lat", "lng", "region",
    "sector", "year">>

\* the numeric fields of the dataset, sorted
availableMetrics(d) ==
  LET Found(k) ==
        /\ k \notin {"year", "lat", "lng"}
        /\ \E i \in DOMAIN d :
             /\ k \in DOMAIN d[i].v
             /\ IsNumber(d[i].v[k])
             /\ IsFinite(d[i].v[k])
  IN  SelectSeq(KeyOrder, Found)

\* a faulty variant of AdjustMetrics: the selection is left as it is
AdjustMetricsKeep(prev, d) == prev

\* the effect that adjusts selectedMetrics to the metrics available
AdjustMetrics(prev, d) ==
  LET available == availableMetrics(d)
      Available(m) == m \in Range(available)
      filtered == SelectSeq(prev, Available)
  IN  IF available = <<>> THEN prev
      ELSE IF filtered # <<>> THEN filtered
      ELSE <<available[1]>>

\* the file served as climatetrace_aggregated.csv
DefaultCsv ==
  [headers |-> PlainHeaders,
   rows |-> << <<"Madrid", "2022", "power", "10">>,
               <<"Madrid", "2022", "power", "0">> >>]

\* the same file when its one data line is the invalid line of year 1800,
\* and when its one data line has no region
InvalidCsv ==
  [headers |-> PlainHeaders,
   rows |-> << <<"Andalucía", "1800", "transport", "10">> >>]
NoRegionCsv ==
  [headers |-> PlainHeaders, rows |-> << <<"", "2022", "power", "10">> >>]

\* what the server can hold under the default URL when a fetch reads it
ServedTexts == {DefaultCsv, InvalidCsv, NoRegionCsv, WideCsv}

\* the files a user can pick, with their size in bytes
GoodFile ==
  [name |-> "data.csv", size |-> 40,
   text |-> [headers |-> AliasHeaders,
             rows |-> << <<"Madrid", "2022", "power", "10", "3">> >>]]
DroppedFile ==
  [name |-> "dropped.csv", size |-> 40, text |-> NoRegionCsv]
HeaderOnlyFile ==
  [name |-> "header.csv", size |-> 28,
   text |-> [headers |-> PlainHeaders, rows |-> <<>>]]
TextFile ==
  [name |-> "data.txt", size |-> 40,
   text |-> [headers |-> PlainHeaders,
             rows |-> << <<"Madrid", "2022", "power", "10">> >>]]
\* a file of one byte more than 10 MB
OversizeFile ==
  [name |-> "big.csv", size |-> 10485761,
   text |-> [headers |-> PlainHeaders,
             rows |-> << <<"Madrid", "2023", "power", "7">> >>]]
Files == {GoodFile, DroppedFile, HeaderOnlyFile, TextFile, OversizeFile}

\* file.name.toLowerCase().endsWith('.csv')
EndsWithCsv(name) == name \in {"data.csv", "dropped.csv", "header.csv", "big.csv"}

\* the two places Index renders a DataUpload in
Instances == {"sheet", "dialog"}

MaxLoads == 2

Load(kind, inst, text) ==
  [kind |-> kind, inst |-> inst, text |-> text, pc |-> "pending", live |-> TRUE]

Pending(i) == i \in DOMAIN loads /\ loads[i].pc = "pending"

\* the dataset a load hands over when it succeeds
Result(load) ==
  IF load.kind = "mount" THEN parseCSV(load.text) ELSE uploadParseCSV(load.text)

Init ==
  /\ RenderIdle
  /\ BatchIdle
  /\ ParseIdle
  /\ AppIdle
  /\ CleanIdle

\* what MapVisualization returns: the loading screen, the error screen, or
\* the map with the markers
Screen ==
  IF isLoading THEN "loading"
  ELSE IF error # "null" THEN "error"
  ELSE "map"

\* what localStorage can hold under selectedMetrics when Index mounts:
\* nothing (the initial state is ['emissions']), or a selection saved earlier
SavedSelections == {<<"emissions">>, <<"intensity">>, <<>>}

\* the first render of Index and its mount effect: loadData up to the fetch
Mount(text, saved) ==
  /\ ~mounted
  /\ loads = <<>>
  /\ mounted' = TRUE
  /\ isLoading' = TRUE
  /\ error' = "null"
  /\ statusMsg' = [kind |-> "fetching", n |-> 0]
  /\ loads' = <<Load("mount", "index", text)>>
  /\ selectedMetrics' = saved
  /\ SetView(data, filters, saved)
  /\ UNCHANGED <<data, filters, isDataModalOpen,
                 uploadIsLoading, toast, batchVars, parseVars, cleanVars>>

\* setData followed by the effect on availableMetrics and the re-render
SetData(d) ==
  /\ data' = d
  /\ selectedMetrics' = AdjustMetrics(selectedMetrics, d)
  /\ SetView(d, filters, AdjustMetrics(selectedMetrics, d))

\* loadData from setData(parsedData) on
Loaded(parsedData) ==
  /\ SetData(parsedData)
  /\ statusMsg' = [kind |-> "default", n |-> Len(parsedData)]
  /\ isLoading' = FALSE
  /\ loads' = [loads EXCEPT ![1].pc = "loaded"]
  /\ UNCHANGED <<filters, mounted, error, isDataModalOpen, uploadIsLoading,
                 toast, batchVars, parseVars, cleanVars>>

\* loadData after the fetch resolved with res.ok
loadDataOk ==
  /\ mounted
  /\ Pending(1)
  /\ Loaded(Result(loads[1]))

\* a faulty variant of loadDataFails: the catch without the finally
loadDataFailsNoFinally ==
  /\ mounted
  /\ Pending(1)
  /\ error' = "message"
  /\ statusMsg' = [kind |-> "error", n |-> 0]
  /\ loads' = [loads EXCEPT ![1].pc = "failed"]
  /\ UNCHANGED <<renderVars, mounted, isLoading, isDataModalOpen, uploadIsLoading,
                 toast, batchVars, parseVars, cleanVars>>

\* loadData after the fetch rejected or resolved without res.ok
loadDataFails ==
  /\ mounted
  /\ Pending(1)
  /\ error' = "message"
  /\ statusMsg' = [kind |-> "error", n |-> 0]
  /\ isLoading' = FALSE
  /\ loads' = [loads EXCEPT ![1].pc = "failed"]
  /\ UNCHANGED <<renderVars, mounted, isDataModalOpen, uploadIsLoading,
                 toast, batchVars, parseVars, cleanVars>>

\* Header.onOpenDataModal
onOpenDataModal ==
  /\ mounted
  /\ ~isDataModalOpen
  /\ isDataModalOpen' = TRUE
  /\ UNCHANGED <<renderVars, mounted, isLoading, error, statusMsg,
                 uploadIsLoading, toast, loads, batchVars, parseVars, cleanVars>>

\* the loads after the dialog closed: its DataUpload is unmounted, the next
\* one starts with isLoading false
AfterClose(ls) ==
  [i \in DOMAIN ls |-> IF ls[i].inst = "dialog" THEN [ls[i] EXCEPT !.live = FALSE]
                       ELSE ls[i]]

\* Dialog.onOpenChange(false)
onOpenChange ==
  /\ mounted
  /\ isDataModalOpen
  /\ isDataModalOpen' = FALSE
  /\ uploadIsLoading' = [uploadIsLoading EXCEPT !["dialog"] = FALSE]
  /\ loads' = AfterClose(loads)
  /\ UNCHANGED <<renderVars, mounted, isLoading, error, statusMsg, toast,
                 batchVars, parseVars, cleanVars>>

Open(inst) == inst = "sheet" \/ isDataModalOpen

\* DataUpload.loadDefaultData up to the fetch
loadDefaultData(inst, text) ==
  /\ mounted
  /\ Open(inst)
  /\ ~uploadIsLoading[inst]
  /\ Len(loads) < MaxLoads
  /\ uploadIsLoading' = [uploadIsLoading EXCEPT ![inst] = TRUE]
  /\ loads' = Append(loads, Load("default", inst, text))
  /\ UNCHANGED <<renderVars, mounted, isLoading, error, statusMsg,
                 isDataModalOpen, toast, batchVars, parseVars, cleanVars>>

\* DataUpload.handleFileUpload up to file.text()
handleFileUpload(inst, file) ==
  /\ mounted
  /\ Open(inst)
  /\ ~uploadIsLoading[inst]
  /\ Len(loads) < MaxLoads
  /\ IF ~EndsWithCsv(file.name)
     THEN /\ toast' = "error"
          /\ UNCHANGED <<uploadIsLoading, loads>>
     ELSE /\ uploadIsLoading' = [uploadIsLoading EXCEPT ![inst] = TRUE]
          /\ loads' = Append(loads, Load("upload", inst, file.text))
          /\ UNCHANGED toast
  /\ UNCHANGED <<renderVars, mounted, isLoading, error, statusMsg,
                 isDataModalOpen, batchVars, parseVars, cleanVars>>

\* the finally of a DataUpload load: setIsLoading(false) on its instance
Finally(i, ls) ==
  IF ls[i].live THEN [uploadIsLoading EXCEPT ![ls[i].inst] = FALSE]
  ELSE uploadIsLoading

\* onDataLoaded(parsedData), which is Index.handleDataLoaded, and the finally
\* of the load; ls is the loads once load i is marked and the dialog closed
Handed(i, parsedData, ls) ==
  /\ SetData(parsedData)
  /\ statusMsg' = [kind |-> "upload", n |-> Len(parsedData)]
  /\ isDataModalOpen' = FALSE
  /\ toast' = "success"
  /\ loads' = ls
  /\ uploadIsLoading' = IF isDataModalOpen
                        THEN [Finally(i, ls) EXCEPT !["dialog"] = FALSE]
                        ELSE Finally(i, ls)
  /\ UNCHANGED filters

\* a faulty variant of Caught: the catch without the finally
CaughtNoFinally(i, ls) ==
  /\ toast' = "error"
  /\ loads' = ls
  /\ UNCHANGED <<renderVars, statusMsg, isDataModalOpen, uploadIsLoading>>

\* the catch of a DataUpload load, and its finally
Caught(i, ls) ==
  /\ toast' = "error"
  /\ loads' = ls
  /\ uploadIsLoading' = Finally(i, ls)
  /\ UNCHANGED <<renderVars, statusMsg, isDataModalOpen>>

Marked(i, pc) == [loads EXCEPT ![i].pc = pc]

\* what a DataUpload load does with the parsed text
Settle(i, parsedData) ==
  /\ IF loads[i].kind = "upload" /\ Len(parsedData) = 0
     THEN Caught(i, Marked(i, "failed"))
     ELSE Handed(i, parsedData,
                 IF isDataModalOpen THEN AfterClose(Marked(i, "loaded"))
                 ELSE Marked(i, "loaded"))
  /\ UNCHANGED <<mounted, isLoading, error, batchVars, parseVars, cleanVars>>

\* a DataUpload load whose text arrived: parseCSV throws, or returns
Arrived(i) ==
  IF UploadThrows(loads[i].text)
  THEN /\ Caught(i, Marked(i, "failed"))
       /\ UNCHANGED <<mounted, isLoading, error, batchVars, parseVars, cleanVars>>
  ELSE Settle(i, Result(loads[i]))

\* loadDefaultData after the fetch resolved with res.ok
loadDefaultDataOk(i) ==
  /\ mounted
  /\ Pending(i)
  /\ loads[i].kind = "default"
  /\ Arrived(i)

\* loadDefaultData after the fetch rejected or resolved without res.ok
loadDefaultDataFails(i) ==
  /\ mounted
  /\ Pending(i)
  /\ loads[i].kind = "default"
  /\ toast' = "error"
  /\ loads' = [loads EXCEPT ![i].pc = "failed"]
  /\ uploadIsLoading' = Finally(i, loads)
  /\ UNCHANGED <<renderVars, mounted, isLoading, error, statusMsg,
                 isDataModalOpen, batchVars, parseVars, cleanVars>>

\* handleFileUpload after file.text() resolved
fileText(i) ==
  /\ mounted
  /\ Pending(i)
  /\ loads[i].kind = "upload"
  /\ Arrived(i)

\* Index is unmounted: the cleanup of the mount effect aborts its fetch, and
\* nothing a load does afterwards reaches a mounted component
Unmount ==
  /\ mounted
  /\ mounted' = FALSE
  /\ loads' = [i \in DOMAIN loads |->
                 IF loads[i].kind = "mount" /\ loads[i].pc = "pending"
                 THEN [loads[i] EXCEPT !.pc = "aborted"] ELSE loads[i]]
  /\ UNCHANGED <<renderVars, isLoading, error, statusMsg, isDataModalOpen,
                 uploadIsLoading, toast, batchVars, parseVars, cleanVars>>

\* the metric Select of MapVisualization: onMetricsChange([value]), which is
\* Index's setSelectedMetrics, for one of the options it lists
onValueChange(value) ==
  /\ mounted
  /\ Screen = "map"
  /\ value \in Range(availableMetrics(data))
  /\ selectedMetrics' = <<value>>
  /\ SetView(data, filters, <<value>>)
  /\ UNCHANGED <<data, filters, mounted, isLoading, error, statusMsg,
                 isDataModalOpen, uploadIsLoading, toast, loads, batchVars,
                 parseVars, cleanVars>>

Next ==
  \/ \E text \in ServedTexts : \E saved \in SavedSelections : Mount(text, saved)
  \/ loadDataOk
  \/ loadDataFails
  \/ onOpenDataModal
  \/ onOpenChange
  \/ \E inst \in Instances : \E text \in ServedTexts : loadDefaultData(inst, text)
  \/ \E inst \in Instances : \E file \in Files : handleFileUpload(inst, file)
  \/ \E i \in 1..MaxLoads : loadDefaultDataOk(i)
  \/ \E i \in 1..MaxLoads : loadDefaultDataFails(i)
  \/ \E i \in 1..MaxLoads : fileText(i)
  \/ \E value \in Range(KeyOrder) : onValueChange(value)
  \/ Unmount

Spec == Init /\ [][Next]_vars

\* the steps that end the fetch of the mount effect: those of loadDataOk and
\* of loadDataFails
fetchSettles ==
  /\ mounted
  /\ Pending(1)
  /\ \E pc \in {"loaded", "failed"} : loads' = [loads EXCEPT ![1].pc = pc]

\* the same machine when the fetch of the mount effect settles: a pending
\* fetch resolves or rejects
SpecLive == Init /\ [][Next]_vars /\ WF_loads(fetchSettles)

\* C6: when load B was started after load A and both have handed over a
\* dataset, the dataset Index holds is B's (B being the last started of
\* the loads that handed one over), whatever the order they completed in
C6_LastRequestWins ==
  mounted =>
    \A a \in DOMAIN loads : \A b \in DOMAIN loads :
      ( /\ a < b
        /\ loads[a].pc = "loaded"
        /\ loads[b].pc = "loaded"
        /\ \A c \in DOMAIN loads : c > b => loads[c].pc # "loaded" )
        => data = Result(loads[b])

\* while Index is mounted its first load is the mount effect's
MountLoadFirst ==
  mounted => (loads # <<>> /\ loads[1].kind = "mount")

(***************************************************************************)
(* Claims on the runtime parsers (SpecParse), continued                    *)
(***************************************************************************)

\* the cell of data line r under the first of the named columns whose cell
\* is not the empty string, or the empty string when there is none
RECURSIVE FirstNonEmpty(_, _, _)
FirstNonEmpty(text, r, names) ==
  IF names = <<>> THEN ""
  ELSE LET at == {i \in DOMAIN text.headers :
                    /\ text.headers[i] = Head(names)
                    /\ i \in DOMAIN text.rows[r]
                    /\ Unquote(Trim(text.rows[r][i])) # ""}
       IN  IF at # {} THEN Unquote(Trim(text.rows[r][CHOOSE i \in at : TRUE]))
           ELSE FirstNonEmpty(text, r, Tail(names))

\* a cell as the upload parser types it
UploadTyped(cell) ==
  IF CellNumber(cell).k # "nan" /\ cell # "" THEN CellNumber(cell) ELSE Str(cell)

\* data line r has as many fields as the header
FullRow(text, r) == Len(text.rows[r]) = Len(text.headers)

\* data line r is valid once each canonical field is read from its first
\* non-empty column
RowValid(text, r) ==
  /\ FullRow(text, r)
  /\ sanitizeString(Str(FirstNonEmpty(text, r, RegionNames))) # ""
  /\ CellNumber(FirstNonEmpty(text, r, YearNames)).k = "num"
  /\ CellNumber(FirstNonEmpty(text, r, YearNames)).n >= 1900
  /\ CellNumber(FirstNonEmpty(text, r, YearNames)).n <= 2100
  /\ CellNumber(FirstNonEmpty(text, r, EmissionsNames)).k = "num"
  /\ CellNumber(FirstNonEmpty(text, r, EmissionsNames)).n >= 0

\* the text has one data line, with as many fields as the header
OneFullRow == Len(csv.rows) = 1 /\ FullRow(csv, 1)

\* the text has one data line, and it is valid
OneValidRow == Len(csv.rows) = 1 /\ RowValid(csv, 1)

\* C11: every canonical field of an emitted record is the value of the first
\* column, in the priority order of its aliases, whose cell is non-empty (a
\* cell holding 0 included), and a column headed año supplies the year when
\* year and Year are absent or empty
C11_FirstNonEmptyAlias ==
  /\ (indexParsed /\ OneFullRow /\ indexOut # <<>>) =>
       /\ Get(indexOut[1], "region")
            = Str(sanitizeString(Str(FirstNonEmpty(csv, 1, RegionNames))))
       /\ Get(indexOut[1], "year")
            = sanitizeNumber(Str(FirstNonEmpty(csv, 1, YearNames)))
       /\ Get(indexOut[1], "sector")
            = Str(sanitizeString(Str(FirstNonEmpty(csv, 1, SectorNames))))
       /\ Get(indexOut[1], "emissions")
            = sanitizeNumber(Str(FirstNonEmpty(csv, 1, EmissionsNames)))
  /\ (uploadParsed = "returned" /\ OneFullRow /\ uploadOut # <<>>) =>
       /\ Get(uploadOut[1], "region") = UploadTyped(FirstNonEmpty(csv, 1, RegionNames))
       /\ Get(uploadOut[1], "year") = UploadTyped(FirstNonEmpty(csv, 1, YearNames))
       /\ Get(uploadOut[1], "sector") = UploadTyped(FirstNonEmpty(csv, 1, SectorNames))
       /\ Get(uploadOut[1], "emissions")
            = UploadTyped(FirstNonEmpty(csv, 1, EmissionsNames))
  /\ (indexParsed /\ OneValidRow /\ "año" \in Range(csv.headers)) =>
       indexOut # <<>>

\* the part of C11 about the value 0: a higher-priority emissions cell
\* holding 0 is kept by the Index parser
IndexKeepsZero ==
  (indexParsed /\ OneFullRow /\ indexOut # <<>>) =>
    Get(indexOut[1], "emissions")
      = sanitizeNumber(Str(FirstNonEmpty(csv, 1, EmissionsNames)))

\* the same part for the upload parser
UploadKeepsZero ==
  (uploadParsed = "returned" /\ OneFullRow /\ uploadOut # <<>>) =>
    Get(uploadOut[1], "emissions") = UploadTyped(FirstNonEmpty(csv, 1, EmissionsNames))

\* the part of C11 about the column año, for the Index parser
IndexReadsLocalYear ==
  (indexParsed /\ OneValidRow /\ "año" \in Range(csv.headers)) => indexOut # <<>>

\* the same part for the upload parser
UploadReadsLocalYear ==
  (uploadParsed = "returned" /\ OneValidRow /\ "año" \in Range(csv.headers)) =>
    (uploadOut # <<>> /\ Get(uploadOut[1], "year") = Num(2022))

\* the cell is a number as written
CellParses(cell) == cell # "" /\ CellNumber(cell).k = "num"

\* the lat and lng cells of the one data line parse as numbers and the pair
\* lies inside the Spain bounding box
InBox ==
  /\ CellParses(FirstNonEmpty(csv, 1, <<"lat">>))
  /\ CellParses(FirstNonEmpty(csv, 1, <<"lng">>))
  /\ validateCoordinates(CellNumber(FirstNonEmpty(csv, 1, <<"lat">>)).n,
                         CellNumber(FirstNonEmpty(csv, 1, <<"lng">>)).n)

\* the pair the lat and lng cells of the one data line denote
CellPair ==
  Coords(CellNumber(FirstNonEmpty(csv, 1, <<"lat">>)).n,
         CellNumber(FirstNonEmpty(csv, 1, <<"lng">>)).n)

\* the record made from the one data line carries the pair of its cells when
\* that pair is in the box and no coordinates otherwise
CoordinatesAsClaimed(rec) ==
  rec.coordinates = IF InBox THEN CellPair ELSE NoCoords

HasPlace == "lat" \in Range(csv.headers) /\ "lng" \in Range(csv.headers)

\* C12: a record carries coordinates exactly when its lat and lng cells
\* parse as numbers inside the Spain bounding box; otherwise the record is
\* still emitted, without coordinates
C12_CoordinatesIffInBox ==
  /\ (indexParsed /\ OneValidRow /\ HasPlace) =>
       (indexOut # <<>> /\ CoordinatesAsClaimed(indexOut[1]))
  /\ (uploadParsed = "returned" /\ OneValidRow /\ HasPlace) =>
       (uploadOut # <<>> /\ CoordinatesAsClaimed(uploadOut[1]))

\* the half of C12 that is about Index.parseCSV alone
IndexCoordinatesIffInBox ==
  (indexParsed /\ OneValidRow /\ HasPlace) =>
    (indexOut # <<>> /\ CoordinatesAsClaimed(indexOut[1]))

\* the Index parser has emitted a record without coordinates for a line
\* whose pair lies outside the box
IndexDropsOutOfBoxPair ==
  /\ indexParsed /\ OneValidRow /\ HasPlace /\ ~InBox
  /\ CellParses(FirstNonEmpty(csv, 1, <<"lat">>))
  /\ indexOut # <<>>
  /\ indexOut[1].coordinates = NoCoords

\* every data line of the text has as many fields as the header
AllFull == \A r \in DOMAIN csv.rows : FullRow(csv, r)

\* the numbers of the valid data lines, in input order
RECURSIVE ValidFrom(_)
ValidFrom(r) ==
  IF r > Len(csv.rows) THEN <<>>
  ELSE (IF RowValid(csv, r) THEN <<r>> ELSE <<>>) \o ValidFrom(r + 1)

\* out holds one record per valid data line, in input order
IsValidRows(out) ==
  LET valid == ValidFrom(1)
  IN  /\ Len(out) = Len(valid)
      /\ \A k \in DOMAIN valid :
           k \in DOMAIN out =>
             Get(out[k], "year") = CellNumber(FirstNonEmpty(csv, valid[k], YearNames))

\* C13: the output of parseCSV is exactly the valid data lines, in input
\* order: an invalid line is skipped without affecting another line, and a
\* valid line (one with emissions 0 included) is present
C13_OutputIsValidRows ==
  /\ (indexParsed /\ AllFull) => IsValidRows(indexOut)
  /\ (uploadParsed = "returned" /\ AllFull) => IsValidRows(uploadOut)

\* the half of C13 about Index.parseCSV, on texts with a year or Year
\* column and no region that reads as a number
IndexOutputIsValidRows ==
  (/\ indexParsed
   /\ AllFull
   /\ "año" \notin Range(csv.headers)
   /\ \A r \in DOMAIN csv.rows : ~CellParses(FirstNonEmpty(csv, r, RegionNames)))
    => IsValidRows(indexOut)

\* the half of C13 about Index.parseCSV, on every text
IndexOutputIsValidRowsAll ==
  (indexParsed /\ AllFull) => IsValidRows(indexOut)

\* the Index parser has skipped an invalid line and kept the valid line
\* after it
IndexSkipsAndContinues ==
  /\ indexParsed
  /\ AllFull
  /\ Len(csv.rows) = 2
  /\ ~RowValid(csv, 1)
  /\ RowValid(csv, 2)
  /\ Len(indexOut) = 1
  /\ IsValidRows(indexOut)

\* the Index parser has kept two valid lines with different years
IndexKeepsOrder ==
  /\ indexParsed
  /\ Len(indexOut) = 2
  /\ IsValidRows(indexOut)
  /\ Get(indexOut[1], "year") # Get(indexOut[2], "year")

\* the part of C13 about presence, for the upload parser: a valid line is
\* in the output
UploadHoldsValidRow ==
  (uploadParsed = "returned" /\ OneValidRow) => uploadOut # <<>>

(***************************************************************************)
(* SpecSanitize: sanitizeNumber and sanitizeString applied to one value    *)
(***************************************************************************)

CellUniverse ==
  {"", "0", "5", "-5", "10", "2022", "Infinity", "-Infinity", "1e12", "-1e12",
   "1e13", "-1e13", "40.4165", "abc", "n/a", "Madrid", " Madrid ", "Andalucía",
   "<b>Madrid</b>", "<script></script>", LongText, LongTextCut}

ValueUniverse ==
  {Str(cell) : cell \in CellUniverse}
    \cup {Num(n) : n \in {-5, 0, 5, 2022}}
    \cup {NaN, PosInf, NegInf, Limit(1), Limit(-1), Huge(1), Huge(-1),
          Undef, Null, Arr(1, "5"), Arr(2, "5")}

InitSanitize ==
  /\ sanitized \in ValueUniverse
  /\ numbered = FALSE
  /\ numberOut = Undef
  /\ stringed = FALSE
  /\ stringOut = ""
  /\ RenderIdle
  /\ BatchIdle
  /\ ParseIdle
  /\ AppIdle

\* a caller passes the value to sanitizeNumber
CallSanitizeNumber ==
  /\ ~numbered
  /\ numbered' = TRUE
  /\ numberOut' = sanitizeNumber(sanitized)
  /\ UNCHANGED <<sanitized, stringed, stringOut, renderVars, batchVars,
                 parseVars, appVars>>

\* a caller passes the value to sanitizeString
CallSanitizeString ==
  /\ ~stringed
  /\ stringed' = TRUE
  /\ stringOut' = sanitizeString(sanitized)
  /\ UNCHANGED <<sanitized, numbered, numberOut, renderVars, batchVars,
                 parseVars, appVars>>

NextSanitize ==
  \/ CallSanitizeNumber
  \/ CallSanitizeString

SpecSanitize == InitSanitize /\ [][NextSanitize]_vars

\* C14: sanitizeNumber(x) is 0 when Number(x) is NaN or infinite, the nearer
\* limit when Number(x) lies beyond 1e12 or -1e12, and Number(x) otherwise;
\* the result is always a finite number between the limits
C14_SanitizeNumberClamps ==
  numbered =>
    /\ numberOut.k \in {"num", "limit"}
    /\ ToNumber(sanitized).k \in {"nan", "inf"} => numberOut = Num(0)
    /\ ToNumber(sanitized).k = "huge" => numberOut = Limit(ToNumber(sanitized).n)
    /\ ToNumber(sanitized).k \in {"num", "limit"} => numberOut = ToNumber(sanitized)

\* sanitizeNumber has clamped a number beyond the upper limit
C14_Witness ==
  /\ numbered
  /\ ToNumber(sanitized) = Huge(1)
  /\ numberOut = Limit(1)

\* the text is at most 200 characters long and holds no markup
Clean(text) == Substring200(text) = text /\ sanitizeHtml(text) = text

StringsClean(rec) ==
  \A key \in DOMAIN rec.v : rec.v[key].k = "str" => Clean(rec.v[key].s)

\* C15: every string the runtime parsers store in a record is at most 200
\* characters long and holds no markup
C15_StoredStringsSanitized ==
  /\ \A i \in DOMAIN indexOut : StringsClean(indexOut[i])
  /\ \A i \in DOMAIN uploadOut : StringsClean(uploadOut[i])

\* the half of C15 about Index.parseCSV
IndexStringsSanitized ==
  \A i \in DOMAIN indexOut : StringsClean(indexOut[i])

\* the Index parser has stored a region it stripped markup from
IndexStripsMarkup ==
  /\ indexParsed
  /\ OneFullRow
  /\ ~Clean(csv.rows[1][1])
  /\ indexOut # <<>>
  /\ Get(indexOut[1], "region") = Str("Madrid")

\* the part of C15 about sanitizeString itself (SpecSanitize): the result is
\* clean, and it is the empty string for a value that is not a string
SanitizeStringCleans ==
  stringed =>
    /\ Clean(stringOut)
    /\ sanitized.k # "str" => stringOut = ""

\* the columns that feed a canonical field
CanonicalColumns ==
  Range(RegionNames) \cup Range(YearNames) \cup Range(SectorNames)
    \cup Range(EmissionsNames) \cup {"lat", "lng"}

\* the additional columns of the one data line whose cell is not empty
FilledExtras ==
  {h \in Range(csv.headers) \ CanonicalColumns : FirstNonEmpty(csv, 1, <<h>>) # ""}

\* a cell as the Index parser types it
IndexTyped(cell) ==
  IF CellNumber(cell).k # "nan" THEN sanitizeNumber(Str(cell))
  ELSE Str(sanitizeString(Str(cell)))

\* C16: every additional column with a non-empty cell is on the emitted
\* record, as a number when the cell parses as a number and as a string
\* otherwise
C16_ExtrasRetained ==
  /\ (indexParsed /\ OneFullRow /\ indexOut # <<>>) =>
       \A h \in FilledExtras :
         Get(indexOut[1], h) = IndexTyped(FirstNonEmpty(csv, 1, <<h>>))
  /\ (uploadParsed = "returned" /\ OneFullRow /\ uploadOut # <<>>) =>
       \A h \in FilledExtras :
         Get(uploadOut[1], h) = UploadTyped(FirstNonEmpty(csv, 1, <<h>>))

\* the half of C16 about the upload parser
UploadExtrasRetained ==
  (uploadParsed = "returned" /\ OneFullRow /\ uploadOut # <<>>) =>
    \A h \in FilledExtras :
      Get(uploadOut[1], h) = UploadTyped(FirstNonEmpty(csv, 1, <<h>>))

\* the part of C16 about numeric extras, for the Index parser
IndexNumericExtrasRetained ==
  (indexParsed /\ OneFullRow /\ indexOut # <<>>) =>
    \A h \in FilledExtras :
      CellParses(FirstNonEmpty(csv, 1, <<h>>)) =>
        Get(indexOut[1], h) = IndexTyped(FirstNonEmpty(csv, 1, <<h>>))

\* both parsers have emitted a record that carries a numeric extra
ExtrasSeen ==
  /\ indexParsed /\ uploadParsed = "returned" /\ OneFullRow
  /\ FilledExtras # {}
  /\ indexOut # <<>> /\ uploadOut # <<>>
  /\ Get(indexOut[1], "intensity") = Num(3)
  /\ Get(uploadOut[1], "intensity") = Num(3)

\* the text without the data lines whose field count differs from the
\* header's
FullOnly(text) ==
  LET Full(cells) == Len(cells) = Len(text.headers)
  IN  [headers |-> text.headers, rows |-> SelectSeq(text.rows, Full)]

\* C17: a data line whose field count differs from the header count gives no
\* record and does not stop the parse: the output is the output for the
\* text without such lines
C17_MismatchedRowSkipped ==
  /\ indexParsed => indexOut = parseCSV(FullOnly(csv))
  /\ uploadParsed = "returned" => uploadOut = uploadParseCSV(FullOnly(csv))

\* the half of C17 about the upload parser
UploadMismatchedRowSkipped ==
  uploadParsed = "returned" => uploadOut = uploadParseCSV(FullOnly(csv))

\* the upload parser has skipped a line with a field too few or too many and
\* kept the line after it
UploadSkipsMismatch ==
  /\ uploadParsed = "returned"
  /\ Len(csv.rows) = 2
  /\ ~FullRow(csv, 1)
  /\ FullRow(csv, 2)
  /\ Len(uploadOut) = 1

(***************************************************************************)
(* Claims on the size limits (Spec)                                        *)
(***************************************************************************)

\* the file a user load was started from
FileOf(load) == CHOOSE file \in Files : file.text = load.text

\* the input of a load exceeds one of the three limits of utils/security.ts
ExceedsLimits(load) ==
  \/ Len(load.text.headers) > MAX_CSV_COLUMNS
  \/ Len(load.text.rows) > MAX_CSV_ROWS
  \/ load.kind = "upload" /\ ~validateFileSize(FileOf(load))

\* C18: an input of more than 10 MB, 50,000 rows or 20 columns is rejected
\* on the upload path and on the default-load path: no load of such an input
\* ever hands a dataset over
C18_OversizeRejected ==
  \A i \in DOMAIN loads : ExceedsLimits(loads[i]) => loads[i].pc # "loaded"

\* the parts of C18, one per limit and path
UploadRejectsOverTenMegabytes ==
  \A i \in DOMAIN loads :
    (loads[i].kind = "upload" /\ ~validateFileSize(FileOf(loads[i])))
      => loads[i].pc # "loaded"
DefaultRejectsWide ==
  \A i \in DOMAIN loads :
    (loads[i].kind = "default" /\ Len(loads[i].text.headers) > MAX_CSV_COLUMNS)
      => loads[i].pc # "loaded"
MountRejectsWide ==
  \A i \in DOMAIN loads :
    (loads[i].kind = "mount" /\ Len(loads[i].text.headers) > MAX_CSV_COLUMNS)
      => loads[i].pc # "loaded"

\* no record of an input of 21 columns is in the dataset
NoWideRecordInDataset ==
  \A i \in DOMAIN data : "c21" \notin DOMAIN data[i].v

(***************************************************************************)
(* Claims on what a load reports (Spec)                                    *)
(***************************************************************************)

\* the status line or the toast reports a load as a success
StatusLoaded == statusMsg.kind \in {"default", "upload"}

\* load i completes in this step with a parse that returned no record
CompletesEmpty(i) ==
  /\ i \in DOMAIN loads
  /\ loads[i].pc = "pending"
  /\ i \in DOMAIN loads'
  /\ loads'[i].pc # "pending"
  /\ ~UploadThrows(loads[i].text)
  /\ Result(loads[i]) = <<>>

\* what a step leaves when it reported a success: the 'Loaded n records'
\* status written, or the success toast shown
ReportsSuccess ==
  \/ StatusLoaded' /\ statusMsg' # statusMsg
  \/ toast' = "success"

\* C19: a load whose parse succeeds with zero valid records, on the file
\* upload, the 'load default' button or the fetch on mount, is never
\* reported as a success: no success toast and no 'Loaded 0 records' status
C19_EmptyNeverSuccess ==
  [][\A i \in 1..MaxLoads : CompletesEmpty(i) => ~ReportsSuccess]_vars

\* the parts of C19: the status line never reads 'Loaded 0 records', per path
MountNeverLoadedZero == ~(statusMsg.kind = "default" /\ statusMsg.n = 0)
HandedNeverLoadedZero == ~(statusMsg.kind = "upload" /\ statusMsg.n = 0)

\* a file upload whose parse returned no record ends in the catch
UploadEmptyFails ==
  \A i \in DOMAIN loads :
    ( /\ loads[i].kind = "upload"
      /\ loads[i].pc # "pending"
      /\ ~UploadThrows(loads[i].text)
      /\ Result(loads[i]) = <<>> ) => loads[i].pc = "failed"
UploadEmptySeen ==
  \E i \in DOMAIN loads :
    /\ loads[i].kind = "upload"
    /\ loads[i].pc = "failed"
    /\ ~UploadThrows(loads[i].text)
    /\ Result(loads[i]) = <<>>
    /\ toast = "error"

\* the 'load default' button with a served text of no valid record never
\* shows the success toast
ButtonEmptyNoSuccess ==
  \A i \in DOMAIN loads :
    ( /\ loads[i].kind = "default"
      /\ loads[i].pc = "loaded"
      /\ Result(loads[i]) = <<>> ) => toast # "success"

\* the data lines of a load's text that its parse did not turn into a record
Dropped(load) == Len(load.text.rows) - Len(Result(load))

\* load i completes in this step with a parse that returned and dropped lines
CompletesWithDrops(i) ==
  /\ i \in DOMAIN loads
  /\ loads[i].pc = "pending"
  /\ i \in DOMAIN loads'
  /\ loads'[i].pc # "pending"
  /\ ~UploadThrows(loads[i].text)
  /\ Dropped(loads[i]) > 0

\* C20: a parse that dropped data lines is never reported as a full success:
\* the step that completes such a load writes no 'Loaded n records' status
\* and shows no success toast
C20_DropsNeverFullSuccess ==
  [][\A i \in 1..MaxLoads : CompletesWithDrops(i) => ~ReportsSuccess]_vars

\* the parts of C20. Scenario B: the only data line is
\* Andalucía,1800,transport,10 and the mount effect loads it
ScenarioB ==
  /\ Len(loads) = 1
  /\ loads[1].text = InvalidCsv
  /\ loads[1].pc = "loaded"
ScenarioBEmptyDataset == ScenarioB => (data = <<>> /\ Dropped(loads[1]) = 1)
\* after scenario B the status is not the 'Loaded 0 records' of a full success
ScenarioBNotSuccess == ScenarioB => ~StatusLoaded
\* the 'load default' button and the file upload, one line dropped of two
HandedDropsNotSuccess ==
  \A i \in DOMAIN loads :
    ( /\ loads[i].kind # "mount"
      /\ loads[i].pc = "loaded"
      /\ Dropped(loads[i]) > 0 ) => toast # "success"

(***************************************************************************)
(* Claims on the batch driver (SpecBatch), continued                       *)
(***************************************************************************)

\* the loop stands before an entry on whose content csv-parse fails
AtMalformedEntry ==
  /\ batchPc = "parse"
  /\ entryIdx <= Len(Entries)
  /\ Entries[entryIdx].malformed

\* C21: an archive entry whose CSV content fails to parse aborts only that
\* entry: the loop goes on to the next entry and the aggregates of the other
\* entries are kept
C21_MalformedEntrySkipped ==
  [][AtMalformedEntry =>
       /\ batchPc' = "parse"
       /\ entryIdx' = entryIdx + 1
       /\ aggregates' = aggregates]_vars

\* the parts of C21: the run never exits once an entry has been processed,
\* and a run whose download succeeded never exits without writing the output
NoExitAfterAnEntry == ~(batchPc = "exit1" /\ entryIdx > 1)
NoExitWithAggregates == ~(batchPc = "exit1" /\ aggregates # <<>>)
\* a run that met a malformed entry has written no output
MalformedRunWritesNothing ==
  (\E i \in DOMAIN Entries : Entries[i].malformed) => batchPc # "written"
MalformedRunSeen ==
  /\ batchPc = "exit1"
  /\ Len(Entries) = 2
  /\ Entries[2].malformed
  /\ aggregates # <<>>
  /\ output = <<>>

(***************************************************************************)
(* Claims on the two grouping rules (SpecBatch)                            *)
(***************************************************************************)

\* where the runtime rule puts a record: its coordinate pair, or the anchor
\* of its region, or its region name
Place(item) ==
  IF item.coordinates.k # "undef"
  THEN <<"at", item.coordinates.lat, item.coordinates.lng>>
  ELSE LET anchor == REGION_COORDS(Get(item, "region"))
       IN IF anchor.k # "undef" THEN <<"at", anchor.lat, anchor.lng>>
          ELSE <<"named", Get(item, "region")>>

\* the records of the runtime universe that a pass aggregates
Placed == {item \in RecordUniverse : Get(item, "region") # Str(Spain)}

\* the runtime pass over two records gives one aggregate of count 2 when
\* they are of one place, and two aggregates otherwise
RuntimeMergesByPlace ==
  \A a, b \in Placed :
    LET agg == aggregatedData(<<a, b>>, <<"emissions">>)
    IN IF Place(a) = Place(b)
       THEN Len(agg) = 1 /\ agg[1].count = 2
       ELSE Len(agg) = 2

\* the aggregates of the batch Map whose key is made of a record's region,
\* year and sector
BatchGroupsOf(r) ==
  {i \in DOMAIN aggregates :
     aggregates[i].key
       = <<RegionOf(r), "|", NumText(FullYear(r.start_time)), "|">>
           \o r.sector \o <<":">> \o r.subsector}

\* two batch records with the same coordinates whose sector or year differ
SameSpotOtherKey(r1, r2) ==
  /\ r1.lat = r2.lat
  /\ r1.lon = r2.lon
  /\ \/ r1.sector # r2.sector
     \/ r1.subsector # r2.subsector
     \/ FullYear(r1.start_time) # FullYear(r2.start_time)

\* C22: the runtime grouping merges two records of one place (coordinate
\* pair, else region anchor, else region name) into one aggregate whatever
\* their sector or year, while under the batch grouping two processed
\* records of the same coordinates and different sector or year stand in two
\* separate aggregates
C22_RuntimeMergesBatchSeparates ==
  /\ RuntimeMergesByPlace
  /\ batchPc \in {"parse", "written"} =>
       \A j, h \in DOMAIN ProcessedRecords :
         LET r1 == ProcessedRecords[j]
             r2 == ProcessedRecords[h]
         IN /\ Cardinality(BatchGroupsOf(r1)) = 1
            /\ SameSpotOtherKey(r1, r2) => BatchGroupsOf(r1) # BatchGroupsOf(r2)

\* Madrid power:coal and Madrid transport:road, of the same coordinates, are
\* written as two lines, and the runtime pass over the two records at Point
\* with sectors power and transport gives one aggregate
C22_Witness ==
  /\ batchPc = "written"
  /\ \E j, h \in DOMAIN ProcessedRecords :
       /\ ProcessedRecords[j] = Madrid100
       /\ ProcessedRecords[h] = MadridRoad50
  /\ Len(aggregates) = 2
  /\ Len(output) = 3
  /\ \E a, b \in Placed :
       /\ a.coordinates = Point
       /\ b.coordinates = Point
       /\ Get(a, "sector") # Get(b, "sector")
       /\ Len(aggregatedData(<<a, b>>, <<"emissions">>)) = 1

(***************************************************************************)
(* Claims on repeated passes (SpecRender)                                  *)
(***************************************************************************)

\* the records a render pass aggregates
Kept == filteredWithoutSpain(filteredData(data, filters))

\* C23: after any sequence of renders, filter changes and metric changes the
\* aggregates, ranges and markers on screen are those of one pass that starts
\* from an empty mapping over the current data, filters and selected
\* metrics; nothing of an earlier pass remains
C23_PassFromScratch ==
  rendered =>
    /\ aggregated = AggFold(<<>>, Kept, selectedMetrics)
    /\ ranges = metricRanges(aggregated, selectedMetrics)
    /\ markers = Markers(aggregated, selectedMetrics, ranges)

\* a view reached only through a filter change and a metric change, in which
\* two records were merged
C23_Witness ==
  /\ rendered
  /\ Len(data) = 3
  /\ filters.region = Str("Madrid")
  /\ selectedMetrics = <<"emissions", "intensity">>
  /\ Len(Kept) = 2
  /\ Len(aggregated) = 1
  /\ aggregated[1].count = 2

\* the parts of C23: a pass leaves the records it was given unchanged, and a
\* pass over unchanged inputs gives the aggregates it gave before
PassLeavesDataUnchanged == [][data' = data]_vars
SecondPassIdentical ==
  [][(rendered /\ filters' = filters /\ selectedMetrics' = selectedMetrics)
       => (aggregated' = aggregated /\ ranges' = ranges /\ markers' = markers)]_vars

\* the batch pass: parseData starts from an empty Map, so the aggregates of a
\* finished loop are those of one fold over the archive's records
BatchFromScratch == LoopDone => aggregates = AddRecords(<<>>, AllRecords)

(***************************************************************************)
(* Claims on the batch output (SpecBatch)                                  *)
(***************************************************************************)

\* the records that bring a composite key for the first time, in order
RECURSIVE FirstSeen(_, _)
FirstSeen(records, seen) ==
  IF records = <<>> THEN <<>>
  ELSE LET r == Head(records)
       IN IF BatchKey(r) \in seen THEN FirstSeen(Tail(records), seen)
          ELSE <<r>> \o FirstSeen(Tail(records), seen \cup {BatchKey(r)})

\* the line the claim gives the key a record brought: the region, year and
\* sector that formed the key, and the key's sum
ExpectedLine(r) ==
  <<RegionOf(r), ",", NumText(FullYear(r.start_time)), ",">>
    \o r.sector \o <<":">> \o r.subsector
    \o <<",", NumText(Num(KeyTotal(AllRecords, BatchKey(r))))>>

ExpectedOutput ==
  LET firsts == FirstSeen(AllRecords, {})
  IN <<<<"region,year,sector,emissions">>>>
       \o [i \in DOMAIN firsts |-> ExpectedLine(firsts[i])]

\* C24: the output is the header followed by one line per composite key, in
\* the order the keys were first seen; each line carries the region, year and
\* sector that formed its key and the key's sum
C24_OutputLinePerKey ==
  batchPc = "written" => output = ExpectedOutput

\* the parts of C24: the header, the number of lines, and the lines of the
\* keys whose sector holds no |
OutputHeaderAndCount ==
  batchPc = "written" =>
    /\ output[1] = <<"region,year,sector,emissions">>
    /\ Len(output) = 1 + Len(FirstSeen(AllRecords, {}))
NoPipe(r) == \A i \in DOMAIN r.sector : r.sector[i] # "|"
OutputLinesWithoutPipe ==
  batchPc = "written" =>
    LET firsts == FirstSeen(AllRecords, {})
    IN \A i \in DOMAIN firsts :
         NoPipe(firsts[i]) =>
           (i + 1 \in DOMAIN output /\ output[i + 1] = ExpectedLine(firsts[i]))
TwoLinesInOrder ==
  /\ batchPc = "written"
  /\ Len(output) = 3
  /\ Len(AllRecords) = 3
  /\ output[2] = ExpectedLine(AllRecords[1])
  /\ output[3] = ExpectedLine(AllRecords[3])

(***************************************************************************)
(* Claims on the error state of Index (Spec)                               *)
(***************************************************************************)

\* the load that completed last went through handleDataLoaded: its status and
\* its success toast stand, and every later completion replaces one of them
LastCompletedHanded == toast = "success" /\ statusMsg.kind = "upload"

\* C25: the error of Index is non-null only while the most recently
\* completed load failed: after a load has succeeded through
\* handleDataLoaded the error is null and the map is rendered
C25_ErrorClearedByLoad ==
  (mounted /\ LastCompletedHanded) => (error = "null" /\ Screen # "error")

\* the parts of C25: a successful default fetch leaves no error, and a
\* failed one shows the error screen
DefaultLoadedNoError ==
  (mounted /\ statusMsg.kind = "default") => (error = "null" /\ Screen = "map")
DefaultFailedShowsError ==
  (mounted /\ statusMsg.kind = "error") => Screen = "error"
\* the dataset a load handed over after the failed fetch is in data while
\* the error screen is shown
DataBehindErrorScreen ==
  /\ mounted
  /\ loads[1].pc = "failed"
  /\ LastCompletedHanded
  /\ data # <<>>
  /\ Screen = "error"

(***************************************************************************)
(* Claims on the accounting of a pass (SpecRender)                         *)
(***************************************************************************)

\* the records that pass the filters
Filtered == filteredData(data, filters)

IsSpain(item) == Get(item, "region") = Str(Spain)

\* where an aggregate of the pass stands
PlaceOfAggregate(g) ==
  IF g.coordinates.k # "undef"
  THEN <<"at", g.coordinates.lat, g.coordinates.lng>>
  ELSE <<"named", Get(g, "region")>>

RECURSIVE CountSum(_)
CountSum(agg) == IF agg = <<>> THEN 0 ELSE Head(agg).count + CountSum(Tail(agg))

\* the finite values the records of España hold for a metric, added up
RECURSIVE SpainSum(_, _)
SpainSum(items, metric) ==
  IF items = <<>> THEN 0
  ELSE (IF IsSpain(Head(items)) /\ Get(Head(items), metric).k = "num"
        THEN Get(Head(items), metric).n ELSE 0)
         + SpainSum(Tail(items), metric)

\* C26: every filtered record is accounted for exactly once: a record of
\* España adds to spainTotal only and to no aggregate, every other filtered
\* record is counted in exactly one aggregate, and the counts of the
\* aggregates add up to the number of filtered records not of España
C26_EveryRecordOnce ==
  rendered =>
    /\ CountSum(aggregated)
         = Cardinality({j \in DOMAIN Filtered : ~IsSpain(Filtered[j])})
    /\ \A j \in DOMAIN Filtered :
         LET same == {g \in DOMAIN aggregated :
                        PlaceOfAggregate(aggregated[g]) = Place(Filtered[j])}
         IN IF IsSpain(Filtered[j]) THEN same = {}
            ELSE /\ Cardinality(same) = 1
                 /\ \A g \in same :
                      aggregated[g].count
                        = Cardinality({h \in DOMAIN Filtered :
                                         /\ ~IsSpain(Filtered[h])
                                         /\ Place(Filtered[h]) = Place(Filtered[j])})
    /\ \A g \in DOMAIN aggregated : ~IsSpain(aggregated[g])
    /\ spainTotal(Filtered, selectedMetrics)
         = Num(SpainSum(Filtered, selectedMetrics[1]))

\* a record of España with emissions 10 beside two records of Madrid that
\* form one aggregate
C26_Witness ==
  /\ rendered
  /\ Len(Filtered) = 3
  /\ \E j \in DOMAIN Filtered : IsSpain(Filtered[j])
  /\ Len(aggregated) = 1
  /\ aggregated[1].count = 2
  /\ spainTotal(Filtered, selectedMetrics) = Num(10)

(***************************************************************************)
(* Claims on the selected metrics (Spec)                                   *)
(***************************************************************************)

\* C27: while Index is mounted and its dataset has a numeric metric, the
\* selection is not empty and every selected metric is an available one,
\* whatever localStorage held at mount and whatever was loaded or selected
C27_SelectionAvailable ==
  (mounted /\ availableMetrics(data) # <<>>) =>
    /\ selectedMetrics # <<>>
    /\ \A i \in DOMAIN selectedMetrics :
         selectedMetrics[i] \in Range(availableMetrics(data))

\* the default CSV was loaded over a saved selection it does not have: the
\* selection is its first available metric, and nothing was selected by hand
\* (the only metric is emissions)
C27_Witness ==
  /\ mounted
  /\ Len(loads) = 1
  /\ loads[1].pc = "loaded"
  /\ availableMetrics(data) = <<"emissions">>
  /\ selectedMetrics = <<"emissions">>

\* the parts of C27: a load replaces a selection the new dataset does not
\* have by the dataset's first metric, and keeps one it has
SelectionReplaced ==
  [][(mounted /\ data' # data /\ availableMetrics(data') # <<>>
        /\ \A i \in DOMAIN selectedMetrics :
             selectedMetrics[i] \notin Range(availableMetrics(data')))
       => selectedMetrics' = <<availableMetrics(data')[1]>>]_vars
SelectionKept ==
  [][(mounted /\ data' # data /\ selectedMetrics # <<>>
        /\ \A i \in DOMAIN selectedMetrics :
             selectedMetrics[i] \in Range(availableMetrics(data')))
       => selectedMetrics' = selectedMetrics]_vars
\* a selection of intensity in a dataset that has several metrics
IntensityKept ==
  /\ mounted
  /\ selectedMetrics = <<"intensity">>
  /\ availableMetrics(data) = <<"año", "co2", "emissions", "intensity">>

(***************************************************************************)
(* Claims on the loading flag of Index (SpecLive)                          *)
(***************************************************************************)

\* once false, isLoading is not set to true again
LoadingNeverRestarts == [][~isLoading => ~isLoading']_vars

LoadingIffPending ==
  (loads # <<>>) => (isLoading <=> loads[1].pc \in {"pending", "aborted"})
AbortedStaysLoading ==
  (loads # <<>> /\ loads[1].pc = "aborted") => (~mounted /\ isLoading)

(***************************************************************************)
(* Claims on rejected uploads (Spec)                                       *)
(***************************************************************************)

\* this step ends upload i in the catch: parseCSV threw, or it returned no
\* record
UploadRejected(i) ==
  /\ i \in DOMAIN loads
  /\ loads[i].kind = "upload"
  /\ loads[i].pc = "pending"
  /\ i \in DOMAIN loads'
  /\ loads'[i].pc = "failed"

\* this step is the rejection of a file whose name does not end in .csv: the
\* error toast replaces another toast and no load is started or completed
NameRejected == mounted /\ loads' = loads /\ toast' # toast

\* what a rejected upload must leave alone: the dataset, what is drawn from
\* it, and the status line
DatasetUntouched ==
  /\ data' = data
  /\ selectedMetrics' = selectedMetrics
  /\ aggregated' = aggregated
  /\ markers' = markers
  /\ statusMsg' = statusMsg
  /\ isDataModalOpen' = isDataModalOpen

\* C29: a rejected upload (a name not ending in .csv, a parse that throws, no
\* valid record) does not call onDataLoaded: the dataset of Index is as
\* before, the error toast is shown, and the isLoading flag of the DataUpload
\* that made the attempt is false afterwards
C29_RejectedUploadNoEffect ==
  [][/\ \A i \in 1..MaxLoads :
          UploadRejected(i) =>
            /\ DatasetUntouched
            /\ toast' = "error"
            /\ loads[i].live => ~uploadIsLoading'[loads[i].inst]
     /\ NameRejected =>
          /\ DatasetUntouched
          /\ toast' = "error"
          /\ uploadIsLoading' = uploadIsLoading]_vars

\* the default CSV is loaded, a later upload of a file with no valid record
\* has been rejected, and the dataset is still that of the default CSV
C29_Witness ==
  /\ mounted
  /\ Len(loads) = 2
  /\ loads[1].pc = "loaded"
  /\ loads[2].kind = "upload"
  /\ loads[2].pc = "failed"
  /\ ~UploadThrows(loads[2].text)
  /\ data # <<>>
  /\ data = Result(loads[1])
  /\ toast = "error"
  /\ ~uploadIsLoading[loads[2].inst]

\* the parts of C29: every upload that has ended is failed exactly when its
\* parse threw or returned no record, and a header-only file ends in the catch
UploadFailsIffNoRecord ==
  \A i \in DOMAIN loads :
    (loads[i].kind = "upload" /\ loads[i].pc # "pending") =>
      (loads[i].pc = "failed"
         <=> (UploadThrows(loads[i].text) \/ Result(loads[i]) = <<>>))
ThrowingUploadSeen ==
  \E i \in DOMAIN loads :
    /\ loads[i].kind = "upload"
    /\ loads[i].pc = "failed"
    /\ UploadThrows(loads[i].text)

(***************************************************************************)
(* FilterPanel: the four filter fields (SpecFilter)                        *)
(***************************************************************************)
FilterFields == {"region", "year", "sectorCategory", "sector"}

\* what the four selects hand to handleFilterChange: null for "all", or a
\* value
FieldValues(key) ==
  CASE key = "region" -> {Null, Str("Madrid")}
    [] key = "year" -> {Null, Num(2023)}
    [] key = "sectorCategory" -> {Null, Str("energy")}
    [] key = "sector" -> {Null, Str("transport")}

\* useState's initialiser in Index with nothing saved: an object without the
\* field sectorCategory
DefaultFilters == [region |-> Null, year |-> Null, sectorCategory |-> Undef, sector |-> Null]

InitFilter ==
  /\ data \in SeqsUpTo(RecordUniverse, MaxRecords)
  /\ filters = DefaultFilters
  /\ selectedMetrics = <<"emissions">>
  /\ rendered = FALSE
  /\ aggregated = <<>>
  /\ ranges = <<>>
  /\ markers = <<>>
  /\ BatchIdle
  /\ ParseIdle
  /\ AppIdle
  /\ CleanIdle

\* the select of the sector is rendered only under a chosen category
SelectShown(key) == key = "sector" => Truthy(filters.sectorCategory)

NextFilter ==
  \/ Render
  \/ \E key \in FilterFields : \E value \in FieldValues(key) :
       SelectShown(key) /\ handleFilterChange(key, value)
  \/ resetFilters

SpecFilter == InitFilter /\ [][NextFilter]_vars

\* the fields a step changes
ChangedFields == {key \in FilterFields : filters'[key] # filters[key]}

\* C30: handleFilterChange changes only the field named by its key and leaves
\* the other three of region, year, sectorCategory and sector as they were
\* (clearing sectorCategory does not clear sector), and resetFilters sets all
\* four to null: a step changes at most one field, or ends with all four
\* null; neither touches the dataset or the selected metrics
C30_OneFieldOrReset ==
  [][/\ DOMAIN filters' = FilterFields
     /\ \/ filters' = NoFilters
        \/ \E key \in FilterFields : ChangedFields \subseteq {key}
     /\ (Truthy(filters.sectorCategory) /\ ~Truthy(filters'.sectorCategory)
           /\ filters' # NoFilters)
          => filters'.sector = filters.sector
     /\ data' = data
     /\ selectedMetrics' = selectedMetrics]_vars

\* a region, a category and a sector were chosen and the category was then
\* cleared: the sector and the region are still set
C30_Witness ==
  /\ rendered
  /\ filters.sectorCategory = Null
  /\ filters.sector = Str("transport")
  /\ filters.region = Str("Madrid")

\* the parts of C30: the view drawn is that of the dataset under the filters
\* held, a sector kept under a cleared category still filters the records,
\* and a step that changes more than one field is a reset
ViewFollowsFilters ==
  rendered =>
    markers = RenderPass(data, filters, selectedMetrics).markers
HiddenSectorStillFilters ==
  /\ C30_Witness
  /\ data # <<>>
  /\ filteredData(data, filters) = <<>>
  /\ filteredData(data, [filters EXCEPT !.sector = Null]) # <<>>
SeveralFieldsOnlyByReset ==
  [][Cardinality(ChangedFields) > 1 => filters' = NoFilters]_vars

====
